---- MODULE Spec2Model ----
(***************************************************************************)
(* Model of the prompt-optimization path of the persona ranker:            *)
(*   POST /api/prompt-optimize      (src/unnamed/part_000)                 *)
(*   runOptimization and helpers    (src/lib/prompt-optimizer.ts)          *)
(*   parseProfileForEmbedding       (src/lib/embeddings.ts)                *)
(* Texts are sequences of one-character strings, so that trimming,         *)
(* whitespace normalisation, label search and length tests are computed    *)
(* character by character as the regular expressions of the source do.     *)
(***************************************************************************)
EXTENDS Integers, Sequences, FiniteSets, TLC

(***************************************************************************)
(* Characters                                                              *)
(***************************************************************************)
NL == "\n"

UpperSeq ==
  <<"A","B","C","D","E","F","G","H","I","J","K","L","M",
    "N","O","P","Q","R","S","T","U","V","W","X","Y","Z">>

LowerSeq ==
  <<"a","b","c","d","e","f","g","h","i","j","k","l","m",
    "n","o","p","q","r","s","t","u","v","w","x","y","z">>

DigitChars == {"0","1","2","3","4","5","6","7","8","9"}

\* \s of the regular expressions, restricted to the characters of the model
IsSpace(c) == c \in {" ", NL}

UpperChars == {UpperSeq[k] : k \in 1..26}
LowerChars == {LowerSeq[k] : k \in 1..26}

\* \w of the regular expressions: [A-Za-z0-9_]
WordChars == UpperChars \cup LowerChars \cup DigitChars \cup {"_"}

IsWordChar(c) == c \in WordChars

LowerOf == [c \in UpperChars |-> LowerSeq[CHOOSE k \in 1..26 : UpperSeq[k] = c]]

\* case folding of the i flag
ToLower(c) == IF c \in UpperChars THEN LowerOf[c] ELSE c

(***************************************************************************)
(* String primitives                                                       *)
(***************************************************************************)
\* first index >= i whose character is not whitespace, Len(s)+1 if none
RECURSIVE SkipSpaces(_, _)
SkipSpaces(s, i) ==
  IF i > Len(s) THEN Len(s) + 1
  ELSE IF IsSpace(s[i]) THEN SkipSpaces(s, i + 1) ELSE i

\* last index <= i whose character is not whitespace, 0 if none
RECURSIVE SkipSpacesBack(_, _)
SkipSpacesBack(s, i) ==
  IF i < 1 THEN 0
  ELSE IF IsSpace(s[i]) THEN SkipSpacesBack(s, i - 1) ELSE i

\* String.prototype.trim
Trim(s) ==
  LET a == SkipSpaces(s, 1)
      b == SkipSpacesBack(s, Len(s))
  IN  IF a > b THEN << >> ELSE SubSeq(s, a, b)

\* s.slice(i) with a 1-based index
SliceFrom(s, i) == SubSeq(s, i, Len(s))

TargetLabel == <<"t","a","r","g","e","t">>
AvoidLabel  == <<"a","v","o","i","d">>
PreferLabel == <<"p","r","e","f","e","r">>

\* /\b<label>\s*:/i anchored at index i: the index just after the colon,
\* or 0 when the expression does not match at i
LabelAt(s, i, label) ==
  LET n == Len(label)
      boundary == i = 1 \/ ~IsWordChar(s[i - 1])
      letters == /\ i + n - 1 <= Len(s)
                 /\ \A k \in 1..n : ToLower(s[i + k - 1]) = label[k]
      c == SkipSpaces(s, i + n)
  IN  IF i >= 1 /\ i <= Len(s) /\ boundary /\ letters /\ c <= Len(s) /\ s[c] = ":"
        THEN c + 1
        ELSE 0

\* s.search(/\b<label>\s*:/i), 1-based; 0 models the -1 of the source
RECURSIVE SearchLabelFrom(_, _, _)
SearchLabelFrom(s, i, label) ==
  IF i > Len(s) THEN 0
  ELSE IF LabelAt(s, i, label) > 0 THEN i
  ELSE SearchLabelFrom(s, i + 1, label)

SearchLabel(s, label) == SearchLabelFrom(s, 1, label)

\* the lookahead (?=\b(Target|Avoid|Prefer)\s*:|$) at index i
SectionEndAt(s, i) ==
  \/ i > Len(s)
  \/ LabelAt(s, i, TargetLabel) > 0
  \/ LabelAt(s, i, AvoidLabel) > 0
  \/ LabelAt(s, i, PreferLabel) > 0

RECURSIVE FindSectionEnd(_, _)
FindSectionEnd(s, i) ==
  IF SectionEndAt(s, i) THEN i ELSE FindSectionEnd(s, i + 1)

(***************************************************************************)
(* stripMarkdown (src/lib/embeddings.ts)                                   *)
(***************************************************************************)
\* first index >= i holding the character c, Len(s)+1 if none
RECURSIVE IndexOfChar(_, _, _)
IndexOfChar(s, i, c) ==
  IF i > Len(s) THEN Len(s) + 1
  ELSE IF s[i] = c THEN i ELSE IndexOfChar(s, i + 1, c)

\* first index >= i not holding the character c, Len(s)+1 if none
RECURSIVE SkipChar(_, _, _)
SkipChar(s, i, c) ==
  IF i > Len(s) THEN Len(s) + 1
  ELSE IF s[i] = c THEN SkipChar(s, i + 1, c) ELSE i

\* .replace(/\*\*([^*]+)\*\*/g, '$1'), scanning from index i
RECURSIVE ReplaceBold(_, _)
ReplaceBold(s, i) ==
  IF i > Len(s) THEN << >>
  ELSE
    LET j == IndexOfChar(s, i + 2, "*")
        hit == /\ i + 1 <= Len(s) /\ s[i] = "*" /\ s[i + 1] = "*"
               /\ j > i + 2
               /\ j + 1 <= Len(s) /\ s[j + 1] = "*"
    IN  IF hit THEN SubSeq(s, i + 2, j - 1) \o ReplaceBold(s, j + 2)
        ELSE <<s[i]>> \o ReplaceBold(s, i + 1)

\* .replace(/\*([^*]+)\*/g, '$1'), scanning from index i
RECURSIVE ReplaceItalic(_, _)
ReplaceItalic(s, i) ==
  IF i > Len(s) THEN << >>
  ELSE
    LET j == IndexOfChar(s, i + 1, "*")
        hit == s[i] = "*" /\ j > i + 1 /\ j <= Len(s)
    IN  IF hit THEN SubSeq(s, i + 1, j - 1) \o ReplaceItalic(s, j + 1)
        ELSE <<s[i]>> \o ReplaceItalic(s, i + 1)

\* ^ under the m flag
IsLineStart(s, i) == i = 1 \/ s[i - 1] = NL

\* .replace(/^[\s]*[-*]\s+/gm, ''), scanning from index i
RECURSIVE RemoveBullets(_, _)
RemoveBullets(s, i) ==
  IF i > Len(s) THEN << >>
  ELSE
    LET k == SkipSpaces(s, i)
        hit == /\ IsLineStart(s, i)
               /\ k <= Len(s) /\ s[k] \in {"-", "*"}
               /\ k + 1 <= Len(s) /\ IsSpace(s[k + 1])
    IN  IF hit THEN RemoveBullets(s, SkipSpaces(s, k + 1))
        ELSE <<s[i]>> \o RemoveBullets(s, i + 1)

\* .replace(/^#+\s*/gm, ''), scanning from index i
RECURSIVE RemoveHeaders(_, _)
RemoveHeaders(s, i) ==
  IF i > Len(s) THEN << >>
  ELSE
    IF IsLineStart(s, i) /\ s[i] = "#"
      THEN RemoveHeaders(s, SkipSpaces(s, SkipChar(s, i, "#")))
      ELSE <<s[i]>> \o RemoveHeaders(s, i + 1)

\* .replace(/\n{2,}/g, '\n'), scanning from index i
RECURSIVE CollapseNewlines(_, _)
CollapseNewlines(s, i) ==
  IF i > Len(s) THEN << >>
  ELSE
    IF s[i] = NL /\ i + 1 <= Len(s) /\ s[i + 1] = NL
      THEN <<NL>> \o CollapseNewlines(s, SkipChar(s, i, NL))
      ELSE <<s[i]>> \o CollapseNewlines(s, i + 1)

stripMarkdown(text) ==
  LET a == ReplaceBold(text, 1)
      b == ReplaceItalic(a, 1)
      c == RemoveBullets(b, 1)
      d == RemoveHeaders(c, 1)
      e == CollapseNewlines(d, 1)
  IN  Trim(e)

(***************************************************************************)
(* parseProfileForEmbedding (src/lib/embeddings.ts)                        *)
(***************************************************************************)
TargetPrefix ==
  <<"T","a","r","g","e","t"," ","p","r","o","f","i","l","e",":"," ">>
AvoidPrefix ==
  <<"P","r","o","f","i","l","e","s"," ","t","o"," ","a","v","o","i","d",":"," ">>
PreferPrefix ==
  <<"P","r","o","f","i","l","e","s"," ","w","e"," ","p","r","e","f","e","r",":"," ">>

\* the absent (null) Avoid / Prefer slot: a value no text equals, since
\* every element of a text is a single character
NullText == <<"<null>">>

\* extractSection: the body of the first section carrying the label, up to
\* the next recognised label or the end of the text, trimmed and stripped
\* the capture group m[1] running from index p to index q - 1
SectionText(trimmed, p, q) ==
  IF q <= p THEN << >> ELSE stripMarkdown(Trim(SubSeq(trimmed, p, q - 1)))

\* the match of the section whose label stands at index at (0: no match)
SectionAt(trimmed, at, label) ==
  IF at = 0 THEN << >>
  ELSE SectionText(trimmed,
                   SkipSpaces(trimmed, LabelAt(trimmed, at, label)),
                   FindSectionEnd(trimmed,
                                  SkipSpaces(trimmed, LabelAt(trimmed, at, label))))

extractSection(trimmed, label) ==
  SectionAt(trimmed, SearchLabel(trimmed, label), label)

hasStructuredSections(trimmed) ==
  \/ SearchLabel(trimmed, TargetLabel) > 0
  \/ SearchLabel(trimmed, AvoidLabel) > 0
  \/ SearchLabel(trimmed, PreferLabel) > 0

\* the prefix put before a section whether or not it is empty
OptionalSlotAlways(prefix, raw) == prefix \o raw

\* raw ? prefix + raw : null   (an empty raw section is falsy)
OptionalSlot(prefix, raw) == IF Len(raw) > 0 THEN prefix \o raw ELSE NullText

\* the return statements of parseProfileForEmbedding, lines 147-159
ProfileOf(trimmed, structured, targetRaw, avoidRaw, preferRaw) ==
  IF ~structured /\ Len(trimmed) > 0
    THEN [targetText |-> TargetPrefix \o stripMarkdown(trimmed),
          avoidText |-> NullText,
          preferText |-> NullText]
    ELSE [targetText |-> IF Len(targetRaw) > 0
                           THEN TargetPrefix \o targetRaw ELSE << >>,
          avoidText |-> OptionalSlot(AvoidPrefix, avoidRaw),
          preferText |-> OptionalSlot(PreferPrefix, preferRaw)]

\* the body of parseProfileForEmbedding on the trimmed text; a section whose
\* label is absent yields the empty text (null and '' are both falsy)
ParseTrimmed(trimmed) ==
  ProfileOf(trimmed,
            hasStructuredSections(trimmed),
            extractSection(trimmed, TargetLabel),
            extractSection(trimmed, AvoidLabel),
            extractSection(trimmed, PreferLabel))

parseProfileForEmbedding(characteristics) == ParseTrimmed(Trim(characteristics))

(***************************************************************************)
(* Prompt comparison and reply clean-up (src/lib/prompt-optimizer.ts)      *)
(***************************************************************************)
\* .replace(/\s+/g, ' '), scanning from index i
RECURSIVE CollapseSpaces(_, _)
CollapseSpaces(s, i) ==
  IF i > Len(s) THEN << >>
  ELSE
    IF IsSpace(s[i])
      THEN <<" ">> \o CollapseSpaces(s, SkipSpaces(s, i))
      ELSE <<s[i]>> \o CollapseSpaces(s, i + 1)

NoNormalizeForCompare(p) == p

normalizePromptForCompare(p) == CollapseSpaces(Trim(p), 1)

isSamePrompt(a, b) == normalizePromptForCompare(a) = normalizePromptForCompare(b)

\* the body of extractPromptOnly once trimmed and targetIdx are known
PromptFrom(trimmed, targetIdx) ==
  IF targetIdx > 0 THEN Trim(SliceFrom(trimmed, targetIdx)) ELSE trimmed

ExtractTrimmed(trimmed) == PromptFrom(trimmed, SearchLabel(trimmed, TargetLabel))

extractPromptOnly(text) == ExtractTrimmed(Trim(text))

\* what every provider branch returns for a raw reply text:
\* extractPromptOnly(text?.trim() ?? '')
proposedFromReply(raw) == extractPromptOnly(Trim(raw))

(***************************************************************************)
(* JavaScript numbers: IEEE 754 binary64 with round to nearest, ties to    *)
(* even.  A finite number is its sign (0 or 1), its 53-bit significand and *)
(* the exponent of the significand's last bit: value = (-1)^sign * mant *  *)
(* 2^exp.  The significand is a natural number of any size, kept as its    *)
(* digits in base LimbBase, lowest first, without leading zero digit, so   *)
(* that no product exceeds the integers of the checker.  Zero is the empty *)
(* significand (the sign of zero is not kept: -0 and 0 compare equal and   *)
(* print alike).  NaN, the infinities and subnormal numbers are outside    *)
(* the values computed from similarities in [-1, 1].                       *)
(***************************************************************************)
SignificandBits == 53
LimbBase == 2^15
LimbBits == CHOOSE b \in 1..30 : 2^b = LimbBase

Digit(x, i) == IF 0 < i /\ i <= Len(x) THEN x[i] ELSE 0

\* a function over 1..n as the sequence of its values
SeqOf(f) == f \o << >>

BigLen(x) ==
  IF \A i \in 1..Len(x) : x[i] = 0 THEN 0
  ELSE CHOOSE k \in 1..Len(x) : x[k] # 0 /\ \A i \in (k + 1)..Len(x) : x[i] = 0
BigTrim(x) == SubSeq(x, 1, BigLen(x))

BigOfInt(n) ==
  BigTrim(<<n % LimbBase, (n \div LimbBase) % LimbBase, n \div (LimbBase * LimbBase)>>)

\* the carry into digit k of columns below 2 * LimbBase - 1: some lower
\* column overflows and every column between passes the carry on
CarryInto(col, k) ==
  IF \E j \in 1..(k - 1) : /\ col[j] >= LimbBase
                           /\ \A i \in (j + 1)..(k - 1) : col[i] = LimbBase - 1
    THEN 1 ELSE 0
BigRipple(col) ==
  IF col = << >> THEN << >>
  ELSE BigTrim(SeqOf([k \in 1..Len(col) |-> (col[k] + CarryInto(col, k)) % LimbBase]))
\* the number with column sums c, each below LimbBase^2
BigOfColumns(c) ==
  IF c = << >> THEN << >>
  ELSE BigRipple(SeqOf([k \in 1..(Len(c) + 2) |->
                     (Digit(c, k) % LimbBase) + (Digit(c, k - 1) \div LimbBase)]))

BigAdd(x, y) ==
  BigOfColumns(SeqOf([k \in 1..(IF Len(x) > Len(y) THEN Len(x) ELSE Len(y)) |->
                        Digit(x, k) + Digit(y, k)]))

BorrowFrom(x, y, k) ==
  IF \E j \in 1..(k - 1) : /\ x[j] < Digit(y, j)
                           /\ \A i \in (j + 1)..(k - 1) : x[i] = Digit(y, i)
    THEN 1 ELSE 0
\* x - y for x >= y
BigSub(x, y) ==
  BigTrim(SeqOf([k \in 1..Len(x) |->
                   (x[k] - Digit(y, k) - BorrowFrom(x, y, k) + LimbBase) % LimbBase]))

BigCmp(x, y) ==
  IF Len(x) > Len(y) THEN 1
  ELSE IF Len(x) < Len(y) THEN -1
  ELSE IF x = y THEN 0
  ELSE IF \E k \in 1..Len(x) : /\ x[k] > y[k]
                               /\ \A i \in (k + 1)..Len(x) : x[i] = y[i]
    THEN 1 ELSE -1

\* x * k for a digit k
BigMulSmall(x, k) == BigOfColumns(SeqOf([i \in 1..Len(x) |-> x[i] * k]))

RECURSIVE BigRowSum(_, _, _)
BigRowSum(rows, k, j) ==
  IF j = 0 THEN 0 ELSE Digit(rows[j], k - j + 1) + BigRowSum(rows, k, j - 1)
BigMulRows(rows, n) ==
  BigOfColumns(SeqOf([k \in 1..n |-> BigRowSum(rows, k, Len(rows))]))
BigMul(x, y) ==
  BigMulRows(SeqOf([j \in 1..Len(y) |-> BigMulSmall(x, y[j])]), Len(x) + Len(y) + 1)

Zeros(n) == [k \in 1..n |-> 0]
BigShl(x, s) ==
  IF x = << >> THEN << >>
  ELSE Zeros(s \div LimbBits) \o BigMulSmall(x, 2^(s % LimbBits))
BigShrSmall(x, r) ==
  BigTrim(SeqOf([k \in 1..Len(x) |->
                   (x[k] \div 2^r) + (Digit(x, k + 1) % 2^r) * 2^(LimbBits - r)]))
BigShr(x, s) ==
  IF s \div LimbBits >= Len(x) THEN << >>
  ELSE BigShrSmall(SubSeq(x, s \div LimbBits + 1, Len(x)), s % LimbBits)

IntBitLen(n) == CHOOSE b \in 0..LimbBits : n < 2^b /\ (b = 0 \/ n >= 2^(b - 1))
BigBitLen(x) ==
  IF x = << >> THEN 0 ELSE LimbBits * (Len(x) - 1) + IntBitLen(x[Len(x)])

\* long division by a divisor whose highest digit is at least LimbBase / 2:
\* the quotient of the two highest digits is the digit or up to two more
QuotDigitGuess(cur, d) ==
  (Digit(cur, Len(d) + 1) * LimbBase + Digit(cur, Len(d))) \div d[Len(d)]
BigFitDigit(cur, d, guess) ==
  IF BigCmp(BigMulSmall(d, guess), cur) <= 0 THEN guess
  ELSE IF BigCmp(BigMulSmall(d, guess - 1), cur) <= 0 THEN guess - 1
  ELSE guess - 2
BigQuotDigit(cur, d) ==
  BigFitDigit(cur, d, IF QuotDigitGuess(cur, d) < LimbBase
                        THEN QuotDigitGuess(cur, d) ELSE LimbBase - 1)

\* one digit of the quotient: the remainder so far takes the next digit of
\* the dividend, and the digit found goes below the digits found before
BigDivTake(quot, cur, d, q) ==
  [quot |-> <<q>> \o quot, rem |-> BigSub(cur, BigMulSmall(d, q))]
BigDivDigit(quot, cur, d) == BigDivTake(quot, cur, d, BigQuotDigit(cur, d))
BigDivStep(st, n, d, i) == BigDivDigit(st.quot, BigTrim(<<n[i]>> \o st.rem), d)
RECURSIVE BigDivFrom(_, _, _, _)
BigDivFrom(n, d, steps, st) ==
  IF Len(st.quot) >= steps THEN st
  ELSE BigDivFrom(n, d, steps, BigDivStep(st, n, d, steps - Len(st.quot)))
BigDivMod(n, d) ==
  IF Len(n) < Len(d) THEN [quot |-> << >>, rem |-> n]
  ELSE BigDivFrom(n, d, Len(n) - Len(d) + 1,
                  [quot |-> << >>,
                   rem |-> BigTrim(SubSeq(n, Len(n) - Len(d) + 2, Len(n)))])

DblZero == [sign |-> 0, exp |-> 0, mant |-> << >>]

\* the number sign * n * 2^e, rounded to 53 bits; sticky says that the
\* exact value is a little more than n * 2^e
DblExact(sign, n, e) ==
  [sign |-> sign, exp |-> e - (SignificandBits - BigBitLen(n)),
   mant |-> BigShl(n, SignificandBits - BigBitLen(n))]
DblCarry(sign, q, e) ==
  IF BigBitLen(q) > SignificandBits
    THEN [sign |-> sign, exp |-> e + 1, mant |-> BigShr(q, 1)]
    ELSE [sign |-> sign, exp |-> e, mant |-> q]
\* the highest of the s bits cut off, and whether any bit below it is set
RoundBit(n, s) ==
  (Digit(n, (s - 1) \div LimbBits + 1) \div 2^((s - 1) % LimbBits)) % 2
LowBits(n, s) ==
  \/ \E i \in 1..((s - 1) \div LimbBits) : Digit(n, i) # 0
  \/ Digit(n, (s - 1) \div LimbBits + 1) % 2^((s - 1) % LimbBits) # 0
DblRoundCut(sign, n, s, q, e, sticky) ==
  IF RoundBit(n, s) = 1 /\ (LowBits(n, s) \/ sticky \/ q[1] % 2 = 1)
    THEN DblCarry(sign, BigAdd(q, <<1>>), e)
    ELSE [sign |-> sign, exp |-> e, mant |-> q]
DblRound(sign, n, e, sticky) ==
  IF n = << >> THEN DblZero
  ELSE IF BigBitLen(n) <= SignificandBits THEN DblExact(sign, n, e)
  ELSE DblRoundCut(sign, n, BigBitLen(n) - SignificandBits,
                   BigShr(n, BigBitLen(n) - SignificandBits),
                   e + BigBitLen(n) - SignificandBits, sticky)

DblOfInt(k) ==
  IF k < 0 THEN DblRound(1, BigOfInt(-k), 0, FALSE)
  ELSE DblRound(0, BigOfInt(k), 0, FALSE)
DblNeg(x) == IF x.mant = << >> THEN x ELSE [x EXCEPT !.sign = 1 - x.sign]

DblAddAligned(sx, nx, sy, ny, e) ==
  IF sx = sy THEN DblRound(sx, BigAdd(nx, ny), e, FALSE)
  ELSE IF BigCmp(nx, ny) >= 0 THEN DblRound(sx, BigSub(nx, ny), e, FALSE)
  ELSE DblRound(sy, BigSub(ny, nx), e, FALSE)
DblAdd(x, y) ==
  IF x.mant = << >> THEN y
  ELSE IF y.mant = << >> THEN x
  ELSE IF x.exp >= y.exp
    THEN DblAddAligned(x.sign, BigShl(x.mant, x.exp - y.exp), y.sign, y.mant, y.exp)
    ELSE DblAddAligned(x.sign, x.mant, y.sign, BigShl(y.mant, y.exp - x.exp), x.exp)
DblSub(x, y) == DblAdd(x, DblNeg(y))

DblMul(x, y) ==
  IF x.mant = << >> \/ y.mant = << >> THEN DblZero
  ELSE DblRound((x.sign + y.sign) % 2, BigMul(x.mant, y.mant), x.exp + y.exp, FALSE)

\* the dividend is shifted so that the quotient has two bits more than a
\* significand, the divisor so that its highest digit is full
QuotientBits == SignificandBits + 2
DivisorShift(d) == LimbBits * Len(d) - BigBitLen(d)
DblOfQuotient(sign, qr, e) == DblRound(sign, BigTrim(qr.quot), e, qr.rem # << >>)
DblQuotient(sign, x, y) ==
  DblOfQuotient(sign,
                BigDivMod(BigShl(x.mant, QuotientBits + DivisorShift(y.mant)),
                          BigShl(y.mant, DivisorShift(y.mant))),
                x.exp - y.exp - QuotientBits)
DblDiv(x, y) ==
  IF x.mant = << >> THEN DblZero
  ELSE IF x.sign = y.sign THEN DblQuotient(0, x, y)
  ELSE DblQuotient(1, x, y)

DblMagLess(x, y) ==
  \/ x.exp < y.exp
  \/ x.exp = y.exp /\ BigCmp(x.mant, y.mant) < 0
DblLess(x, y) ==
  IF x = y THEN FALSE
  ELSE IF x.mant = << >> THEN y.sign = 0
  ELSE IF y.mant = << >> THEN x.sign = 1
  ELSE IF x.sign # y.sign THEN x.sign = 1
  ELSE IF x.sign = 0 THEN DblMagLess(x, y)
  ELSE DblMagLess(y, x)
DblLeq(x, y) == ~DblLess(y, x)
DblMax(x, y) == IF DblLess(x, y) THEN y ELSE x
DblMin(x, y) == IF DblLess(y, x) THEN y ELSE x

\* the number written n / d in decimal, d a power of ten: the double
\* nearest to the quotient
Decimal(n, d) == DblDiv(DblOfInt(n), DblOfInt(d))

(***************************************************************************)
(* Evaluation on the evaluation set (src/lib/prompt-optimizer.ts)          *)
(* Cosine similarities are the outcome of the external embedding           *)
(* capability; they are inputs, given in hundredths and taken as the       *)
(* number nearest to that decimal.  Lead scores are numbers, computed with *)
(* the operations of the source in the order of the source; Spearman       *)
(* scores are kept as integers over SpearmanDen(n).                        *)
(***************************************************************************)
\* export const AVOID_PENALTY_WEIGHT = 0.35, PREFER_BONUS_WEIGHT = 0.25
AVOID_PENALTY_WEIGHT == Decimal(35, 100)
PREFER_BONUS_WEIGHT == Decimal(25, 100)

\* the literals 0, 1, 2, 1.35 and 2.6 of the score formula
DblOne == DblOfInt(1)
DblTwo == DblOfInt(2)
ScoreOffset == Decimal(135, 100)
ScoreRange == Decimal(26, 10)

\* the numbers -1.00, -0.99, ..., 1.00: a cosine similarity of h hundredths
HundredthsTable == SeqOf([k \in 1..201 |-> Decimal(k - 101, 100)])
Hundredth(h) == HundredthsTable[h + 101]

\* simTarget - AVOID_PENALTY_WEIGHT * simAvoid + PREFER_BONUS_WEIGHT * simPrefer
rawScore(simTarget, simAvoid, simPrefer) ==
  DblAdd(DblSub(Hundredth(simTarget),
                DblMul(AVOID_PENALTY_WEIGHT, Hundredth(simAvoid))),
         DblMul(PREFER_BONUS_WEIGHT, Hundredth(simPrefer)))

\* the score of a lead for similarities given in hundredths:
\* Math.max(0, Math.min(1, (rawScore + 1.35) / 2.6)) or (simTarget + 1) / 2
computeLeadScore(simTarget, simAvoid, simPrefer, hasAvoid, hasPrefer) ==
  IF hasAvoid \/ hasPrefer
    THEN DblMax(DblZero,
                DblMin(DblOne,
                       DblDiv(DblAdd(rawScore(simTarget, simAvoid, simPrefer),
                                     ScoreOffset),
                              ScoreRange)))
    ELSE DblDiv(DblAdd(Hundredth(simTarget), DblOne), DblTwo)

\* position at which index i is inserted into the descending order: after
\* every element whose score is not smaller, that is, for which
\* b.score - a.score is not positive (Array.prototype.sort is stable)
RECURSIVE InsertDesc(_, _, _)
InsertDesc(order, i, scores) ==
  IF order = << >> THEN <<i>>
  ELSE IF DblLeq(scores[i], scores[Head(order)])
         THEN <<Head(order)>> \o InsertDesc(Tail(order), i, scores)
         ELSE <<i>> \o order

\* scored.sort((a, b) => b.score - a.score) as the sequence of lead indices
RECURSIVE SortDescPrefix(_, _)
SortDescPrefix(scores, k) ==
  IF k = 0 THEN << >>
  ELSE InsertDesc(SortDescPrefix(scores, k - 1), k, scores)

\* the comparator with its operands exchanged (a.score - b.score)
SortAsc(scores) ==
  [k \in 1..Len(scores) |->
     SortDescPrefix(scores, Len(scores))[Len(scores) + 1 - k]]

SortDesc(scores) == SortDescPrefix(scores, Len(scores))

\* (lead['Full Name'] || '') + '|' + (lead['Company'] || '')
LeadKey(lead) == lead.FullName \o "|" \o lead.Company

\* leadToOurRank.get(key) ?? evalLeads.length + 1 : the map keeps the last
\* position written for a key
OurRankOf(evalLeads, order, i) ==
  LET hits == {idx \in 1..Len(order) :
                 LeadKey(evalLeads[order[idx]].lead) = LeadKey(evalLeads[i].lead)}
  IN  IF hits = {} THEN Len(evalLeads) + 1
      ELSE CHOOSE idx \in hits : \A other \in hits : other <= idx

RECURSIVE SumSeq(_)
SumSeq(q) == IF q = << >> THEN 0 ELSE Head(q) + SumSeq(Tail(q))

SpearmanDen(n) == IF n < 2 THEN 1 ELSE n * (n * n - 1)

\* the rank differences summed unsquared
spearmanCorrelationUnsquared(ourRanks, goldRanks) ==
  IF Len(ourRanks) # Len(goldRanks) \/ Len(ourRanks) < 2 THEN 0
  ELSE SpearmanDen(Len(ourRanks))
         - 6 * SumSeq([i \in 1..Len(ourRanks) |->
                         IF ourRanks[i] >= goldRanks[i]
                           THEN ourRanks[i] - goldRanks[i]
                           ELSE goldRanks[i] - ourRanks[i]])

\* spearmanCorrelation(ourRanks, goldRanks) * SpearmanDen(n)
spearmanCorrelation(ourRanks, goldRanks) ==
  IF Len(ourRanks) # Len(goldRanks) \/ Len(ourRanks) < 2 THEN 0
  ELSE SpearmanDen(Len(ourRanks))
         - 6 * SumSeq([i \in 1..Len(ourRanks) |->
                         (ourRanks[i] - goldRanks[i]) * (ourRanks[i] - goldRanks[i])])

\* !targetText || !targetText.trim()
ProfileIsEmpty(characteristics) ==
  Len(Trim(parseProfileForEmbedding(characteristics).targetText)) = 0

\* number of generateEmbedding calls of one evaluation of a parsed profile
SlotCalls(parsed) ==
  1 + (IF parsed.avoidText # NullText THEN 1 ELSE 0)
    + (IF parsed.preferText # NullText THEN 1 ELSE 0)

\* an embedding call for each of the three slots, present or not
PersonaEmbeddingCallsAllSlots(characteristics) == 3

PersonaEmbeddingCalls(characteristics) ==
  SlotCalls(parseProfileForEmbedding(characteristics))

\* lines 153-161: the score of every lead
LeadScores(n, embPresent, sims, hasAvoid, hasPrefer) ==
  SeqOf([i \in 1..n |->
           IF ~embPresent[i] THEN DblZero
           ELSE computeLeadScore(sims[i].t,
                                 IF hasAvoid THEN sims[i].a ELSE 0,
                                 IF hasPrefer THEN sims[i].p ELSE 0,
                                 hasAvoid, hasPrefer)])

\* lines 164-169: the produced rank of every lead
OurRanks(evalLeads, order) ==
  [i \in 1..Len(evalLeads) |-> OurRankOf(evalLeads, order, i)]

\* line 170
GoldRanks(evalLeads) == [i \in 1..Len(evalLeads) |-> evalLeads[i].goldRank]

\* lines 171-180
EvalResult(ourRanks, goldRanks) ==
  [score |-> spearmanCorrelation(ourRanks, goldRanks),
   ourRanks |-> ourRanks,
   goldRanks |-> goldRanks]

\* lines 150-180 for a parsed profile
EvaluateParsed(parsed, evalLeads, embPresent, sims) ==
  EvalResult(
    OurRanks(evalLeads,
             SortDesc(LeadScores(Len(evalLeads), embPresent, sims,
                                 parsed.avoidText # NullText,
                                 parsed.preferText # NullText))),
    GoldRanks(evalLeads))

\* the result of evaluatePromptOnEvalSet once every embedding call returned;
\* sims[i] holds the three cosine similarities of lead i, embPresent[i] tells
\* whether leadEmbeddings[i] is a non-empty vector
evaluatePromptOnEvalSet(characteristics, evalLeads, embPresent, sims) ==
  EvaluateParsed(parseProfileForEmbedding(characteristics), evalLeads,
                 embPresent, sims)

(***************************************************************************)
(* buildRankingFeedback (src/lib/prompt-optimizer.ts).  The text is kept   *)
(* as the sequence of its sentences (parts, joined by a space); a sentence *)
(* is its heading, k and the examples joined by '; '.                      *)
(***************************************************************************)
FEEDBACK_TOP_K == 5
FEEDBACK_EXAMPLES == 3

\* Math.min(FEEDBACK_TOP_K, n)
FeedbackK(n) == IF FEEDBACK_TOP_K < n THEN FEEDBACK_TOP_K ELSE n

\* Array.prototype.slice(0, end) of an array of len elements keeps its
\* first SliceEnd(len, end): a negative end counts from the end of the array
SliceEnd(len, end) ==
  IF end < 0 THEN (IF len + end > 0 THEN len + end ELSE 0)
  ELSE IF end < len THEN end ELSE len

\* s.slice(0, n)
SliceTo(s, n) == SubSeq(s, 1, SliceEnd(Len(s), n))

\* ranks.map((r, i) => ({ r, i })).sort((a, b) => a.r - b.r).slice(0, k)
\*   .map((x) => x.i), as indices from 1
RECURSIVE InsertByRank(_, _, _)
InsertByRank(order, i, ranks) ==
  IF order = << >> THEN <<i>>
  ELSE IF ranks[Head(order)] <= ranks[i]
         THEN <<Head(order)>> \o InsertByRank(Tail(order), i, ranks)
         ELSE <<i>> \o order

RECURSIVE SortByRank(_, _)
SortByRank(ranks, k) ==
  IF k = 0 THEN << >>
  ELSE InsertByRank(SortByRank(ranks, k - 1), k, ranks)

TopIndices(ranks, k) == SliceTo(SortByRank(ranks, Len(ranks)), k)

\* `${lead['Full Name'] || 'Unknown'} (${lead['Company'] || 'Unknown'})`
FeedbackLabel(lead) ==
  (IF lead.FullName = "" THEN "Unknown" ELSE lead.FullName) \o " (" \o
  (IF lead.Company = "" THEN "Unknown" ELSE lead.Company) \o ")"

\* the loop over goldTopIndices with the test inverted (ourRanks[i] <= k)
RankedTooLowInverted(evalLeads, ourRanks, goldTop, k) ==
  LET Low(i) == ourRanks[i] <= k
      Entry(i) == [label |-> FeedbackLabel(evalLeads[i].lead),
                   rank |-> ourRanks[i], k |-> k]
  IN  [j \in 1..Len(SelectSeq(goldTop, Low)) |->
         Entry(SelectSeq(goldTop, Low)[j])]

\* the loop over goldTopIndices: `... — we ranked them r, gold top-k`
RankedTooLow(evalLeads, ourRanks, goldTop, k) ==
  LET Low(i) == ourRanks[i] > k
      Entry(i) == [label |-> FeedbackLabel(evalLeads[i].lead),
                   rank |-> ourRanks[i], k |-> k]
  IN  [j \in 1..Len(SelectSeq(goldTop, Low)) |->
         Entry(SelectSeq(goldTop, Low)[j])]

\* the loop over ourTopIndices: `... — we put them in top-k, not in gold top-k`
RankedTooHigh(evalLeads, ourTop, goldTop, k) ==
  LET High(i) == \A j \in 1..Len(goldTop) : goldTop[j] # i
      Entry(i) == [label |-> FeedbackLabel(evalLeads[i].lead), k |-> k]
  IN  [j \in 1..Len(SelectSeq(ourTop, High)) |->
         Entry(SelectSeq(ourTop, High)[j])]

\* the sentences pushed to parts
FeedbackParts(rankedTooLow, rankedTooHigh, k) ==
  (IF Len(rankedTooLow) > 0
     THEN <<[heading |-> "Gold top-k that we ranked too low", k |-> k,
             examples |-> SliceTo(rankedTooLow, FEEDBACK_EXAMPLES)]>>
     ELSE << >>)
  \o
  (IF Len(rankedTooHigh) > 0
     THEN <<[heading |-> "Our top-k that should not be there", k |-> k,
             examples |-> SliceTo(rankedTooHigh, FEEDBACK_EXAMPLES)]>>
     ELSE << >>)

FeedbackOfTop(evalLeads, ourRanks, goldTop, ourTop, k) ==
  FeedbackParts(RankedTooLow(evalLeads, ourRanks, goldTop, k),
                RankedTooHigh(evalLeads, ourTop, goldTop, k), k)

\* the empty sequence of sentences is the text ''
buildRankingFeedback(evalLeads, ourRanks, goldRanks) ==
  IF FeedbackK(Len(evalLeads)) < 1 THEN << >>
  ELSE FeedbackOfTop(evalLeads, ourRanks,
                     TopIndices(goldRanks, FeedbackK(Len(evalLeads))),
                     TopIndices(ourRanks, FeedbackK(Len(evalLeads))),
                     FeedbackK(Len(evalLeads)))

(***************************************************************************)
(* Inputs: persona texts and replies of the text-generation capability     *)
(***************************************************************************)
\* a structured initial persona, 16 characters
InitialTarget ==
  <<"T","a","r","g","e","t",":"," ","v","p"," ","s","a","l","e","s">>

\* the same persona as the request body carries it, untrimmed
InitialPadded ==
  <<" "," ","T","a","r","g","e","t",":"," ","v","p"," ","s","a","l","e",
    "s",NL>>

\* a reply shorter than 20 characters
ReplyShort ==
  <<"T","a","r","g","e","t",":"," ","a">>

\* InitialTarget in upper case
ReplyUpper ==
  <<"T","A","R","G","E","T",":"," ","V","P"," ","S","A","L","E","S">>

\* InitialTarget with other whitespace, 20 characters
ReplySpaced ==
  <<"T","a","r","g","e","t",":"," "," ","v","p"," "," "," "," ","s","a",
    "l","e","s">>

\* a preamble, then three sections with markdown residue
ReplyGood ==
  <<"H","e","r","e"," ","i","t"," ","i","s",":",NL,"T","a","r","g","e",
    "t",":"," ","*","*","c","r","o","*","*",NL,"A","v","o","i","d",":",
    " ","#"," ","h","r",NL,"P","r","e","f","e","r",":"," ","-"," ","s",
    "m","b">>

\* 21 characters, no Target section
ReplyAvoidOnly ==
  <<"A","v","o","i","d",":"," ","h","r"," ","a","n","d"," ","f","i","n",
    "a","n","c","e">>

\* free-form text without any label, 25 characters
ReplyFree ==
  <<"s","e","n","i","o","r"," ","s","a","l","e","s"," ","l","e","a","d",
    "e","r","s"," ","o","n","l","y">>

\* an absent or empty reply (text?.trim() ?? '')
ReplyAbsent == << >>

RawInitialPrompts == {<< >>, InitialPadded, ReplyAvoidOnly}

RawReplies ==
  {ReplyAbsent, ReplyShort, ReplyUpper, ReplySpaced, ReplyGood,
   ReplyAvoidOnly, ReplyFree}

(***************************************************************************)
(* Bounds and remaining inputs                                             *)
(***************************************************************************)
\* size of the evaluation set the run works on
NumLeads == 5
\* size of an evaluation set the request layer refuses
FewLeads == 2
\* the request body carries maxIterations in halves: 0, 0.5, ... MaxTwice/2
MaxTwice == 5

DEFAULT_MAX_ITERATIONS == 4
MIN_EVAL_LEADS == 5
MAX_ALLOWED_ITERATIONS == 10
MIN_PROPOSAL_LENGTH == 20
HISTORY_WINDOW == 3

\* body.maxIterations: not a number (absent, a string, ...), or a number
\* given as twice its value
NotANumber == [isNumber |-> FALSE, twice |-> 0]
BodyMaxIterations ==
  {NotANumber} \cup
  {[isNumber |-> TRUE, twice |-> k] :
     k \in (0..MaxTwice) \cup {2 * MAX_ALLOWED_ITERATIONS + 1}}

\* the evaluation set as loadEvalSet returns it: goldRank = index + 1
LeadNames ==
  <<"Ana", "Bo", "Cy", "Di", "Ed", "Fay", "Gus", "Hal", "Ida", "Jo", "Kim">>
EvalLeadsOf(n) ==
  [i \in 1..n |-> [lead |-> [FullName |-> LeadNames[i], Company |-> "Acme"],
                   goldRank |-> i]]

EvalSets == {EvalLeadsOf(NumLeads), EvalLeadsOf(FewLeads)}

\* cosine similarities (in hundredths) the embedding capability may induce
\* between the persona slots and the leads of an evaluation
SimInputs(n) ==
  { [i \in 1..n |-> [t |-> 90 - 10 * i, a |-> 0, p |-> 0]],
    [i \in 1..n |-> [t |-> 10 * i, a |-> 0, p |-> 0]],
    [i \in 1..n |-> [t |-> 50,
                     a |-> IF i = 1 THEN 80 ELSE 0,
                     p |-> IF i = n THEN 40 ELSE 0]] }

\* leadEmbeddings: every vector non-empty, or the first one empty (the
\* Hugging Face and Gemini batch functions keep [] for an item they cannot
\* read)
EmbPresentInputs(n) == {[i \in 1..n |-> TRUE], [i \in 1..n |-> i # 1]}

\* the answers of the gateway tried for a request of the optimizer route:
\* an empty first vector is tried with the requests that name their
\* maxIterations, every vector non-empty with all requests
OptimizePresentInputs(n, bodyMax) ==
  IF bodyMax.isNumber /\ bodyMax.twice \in 2..MaxTwice
    THEN EmbPresentInputs(n)
    ELSE {[i \in 1..n |-> TRUE]}

(***************************************************************************)
(* Errors.  An error is its message (a text), its code and status          *)
(* properties and the text of its cause; new Error(message) has only the   *)
(* message.                                                                *)
(***************************************************************************)
\* String.prototype.includes
Includes(s, w) ==
  \E i \in 1..(Len(s) - Len(w) + 1) : SubSeq(s, i, i + Len(w) - 1) = w

\* s holds w at index i, letter case ignored
WordAt(s, i, w) ==
  /\ i + Len(w) - 1 <= Len(s)
  /\ \A k \in 1..Len(w) : ToLower(s[i + k - 1]) = ToLower(w[k])

\* RegExp /w/i .test(s)
TestIgnoreCase(s, w) == \E i \in 1..Len(s) : WordAt(s, i, w)

\* part_000 line 69: /timeout|ETIMEDOUT|terminated/i.test(message)
isTimeout(message) ==
  \/ TestIgnoreCase(message, <<"t","i","m","e","o","u","t">>)
  \/ TestIgnoreCase(message, <<"E","T","I","M","E","D","O","U","T">>)
  \/ TestIgnoreCase(message, <<"t","e","r","m","i","n","a","t","e","d">>)

\* new Error(message)
NewError(message) ==
  [message |-> message, code |-> "", status |-> 0, cause |-> << >>]

\* an error of the runtime or of a client library, with its properties
ErrorWith(message, code, status, cause) ==
  [message |-> message, code |-> code, status |-> status, cause |-> cause]

\* hfFetchEmbeddings line 238: the request was aborted after
\* HF_FETCH_TIMEOUT_MS
HfTimedOutMessage ==
  <<"H","u","g","g","i","n","g"," ","F","a","c","e"," ","r","e","q","u","e",
    "s","t"," ","t","i","m","e","d"," ","o","u","t","."," ","T","r","y"," ",
    "a","g","a","i","n"," ","o","r"," ","s","e","t"," ","H","F","_","I","N",
    "F","E","R","E","N","C","E","_","U","R","L"," ","/"," ","u","s","e"," ",
    "a","n","o","t","h","e","r"," ","p","r","o","v","i","d","e","r",".">>

\* a connection that timed out at the socket
EtimedoutMessage ==
  <<"c","o","n","n","e","c","t"," ","E","T","I","M","E","D","O","U","T">>

\* a response body cut off by the HTTP client
TerminatedMessage ==
  <<"t","e","r","m","i","n","a","t","e","d">>

\* hfFetchEmbeddings line 231: a response that is not ok
HfStatusMessage ==
  <<"H","u","g","g","i","n","g"," ","F","a","c","e"," ","A","P","I"," ","5",
    "0","0",":"," ","x">>

\* a Gemini answer to a request over the daily quota
QuotaPerDayMessage ==
  <<"Q","u","o","t","a"," ","e","x","c","e","e","d","e","d",":"," ","E","m",
    "b","e","d","C","o","n","t","e","n","t","R","e","q","u","e","s","t","s",
    "P","e","r","D","a","y">>

\* hfFetchEmbeddings line 231: a 400 answer of the provider
PleaseProvideMessage ==
  <<"H","u","g","g","i","n","g"," ","F","a","c","e"," ","A","P","I"," ","4",
    "0","0",":"," ","P","l","e","a","s","e"," ","p","r","o","v","i","d","e",
    " ","i","n","p","u","t","s">>

\* hfFetchEmbeddings line 231: a 500 answer naming a missing file
EnoentModelMessage ==
  <<"H","u","g","g","i","n","g"," ","F","a","c","e"," ","A","P","I"," ","5",
    "0","0",":"," ","E","N","O","E","N","T",":"," ","m","o","d","e","l"," ",
    "f","i","l","e">>

ProviderMessages ==
  {HfTimedOutMessage, EtimedoutMessage, TerminatedMessage, HfStatusMessage}

\* messages of errors thrown inside generateEmbedding
EmbedCauses ==
  {HfStatusMessage, QuotaPerDayMessage, PleaseProvideMessage,
    EnoentModelMessage, EtimedoutMessage}

DailyQuotaMessage ==
  <<"L","í","m","i","t","e"," ","d","i","a","r","i","o"," ","d","e"," ","e",
    "m","b","e","d","d","i","n","g","s"," ","a","l","c","a","n","z","a","d",
    "o"," ","(","1","0","0","0","/","d","í","a"," ","e","n"," ","p","l","a",
    "n"," ","g","r","a","t","u","i","t","o",")","."," ","V","u","e","l","v",
    "e"," ","a"," ","i","n","t","e","n","t","a","r","l","o"," ","m","a","ñ",
    "a","n","a"," ","o"," ","r","e","d","u","c","e"," ","e","l"," ","n","ú",
    "m","e","r","o"," ","d","e"," ","l","e","a","d","s"," ","e","n"," ","e",
    "l"," ","C","S","V",".">>

\* embeddings.ts lines 305-311; null is NullText
getQuotaErrorMessage(message) ==
  IF \/ Includes(message, <<"P","e","r","D","a","y">>)
     \/ /\ Includes(message, <<"1","0","0","0">>)
        /\ Includes(message, <<"q","u","o","t","a">>)
    THEN DailyQuotaMessage
    ELSE NullText

EmbedErrorPrefix ==
  <<"F","a","i","l","e","d"," ","t","o"," ","g","e","n","e","r","a","t","e",
    " ","e","m","b","e","d","d","i","n","g",":"," ">>

BatchErrorPrefix ==
  <<"F","a","i","l","e","d"," ","t","o"," ","g","e","n","e","r","a","t","e",
    " ","e","m","b","e","d","d","i","n","g","s",":"," ">>

\* generateEmbedding lines 386-387: friendly || prefix + message
EmbeddingError(message) ==
  IF getQuotaErrorMessage(message) # NullText
    THEN getQuotaErrorMessage(message)
    ELSE EmbedErrorPrefix \o message

\* generateEmbeddingBatch lines 417-418: friendly || prefix + message
BatchErrorMessage(message) ==
  IF getQuotaErrorMessage(message) # NullText
    THEN getQuotaErrorMessage(message)
    ELSE BatchErrorPrefix \o message

\* ranking.ts line 32, prompt-optimizer.ts line 141
EmptyProfileError ==
  <<"P","r","o","f","i","l","e"," ","c","a","n","n","o","t"," ","b","e"," ",
    "e","m","p","t","y",".">>

\* a call made to throw at its k-th generateEmbedding call (k in 1..3) or
\* at its generateEmbeddingBatch call (k = 4), with the message of the
\* error thrown inside the gateway; k = 0: no call throws
NoFail == [at |-> 0, message |-> << >>]
FailsAt(ks, messages) ==
  {[at |-> k, message |-> m] : k \in ks \ {0}, m \in messages}
    \cup (IF 0 \in ks THEN {NoFail} ELSE {})

NoFailure == [source |-> "none", error |-> NewError(<< >>)]
NoResponse == [status |-> 0]
\* a variable holding no text yet (distinct from every text, see NullText)
NoText == <<"<none>">>

(***************************************************************************)
(* State                                                                   *)
(***************************************************************************)
VARIABLES
  pc,              \* position of the request: idle, loop, propose, propose2,
                   \* returned, failed, responded
  maxIterations2,  \* twice the maxIterations handed to runOptimization
  initialPrompt,
  evalLeads,
  embPresent,      \* leadEmbeddings, as "vector i is non-empty"
  bestPrompt,
  bestScore,       \* in units of 1 / SpearmanDen(Len(evalLeads))
  history,
  currentPrompt,
  iter,
  lastEval,        \* evalResult of the current iteration
  firstProposed,   \* result of the first proposeImprovedPrompt of the iteration
  proposed,        \* the variable proposed of the iteration
  proposeCalls,    \* proposeImprovedPrompt calls issued in the current iteration
  proposeArgs,     \* arguments of the last of these calls
  numEvaluate,     \* evaluatePromptOnEvalSet calls that returned
  numRounds,       \* iterations in which a proposal was requested
  embedCalls,      \* generateEmbedding calls issued by evaluations
  failure,         \* the error thrown inside the request, if any
  response         \* the HTTP response of the request

\* a direct call of one exported operation of the libraries (the scoring
\* engine, the agreement metric, the persona parser) and what it returned
VARIABLES
  call,            \* the operation called and its arguments
  ret              \* its return value or the error it threw

\* one call of the embedding gateway (generateEmbedding, generateEmbeddingBatch)
VARIABLES
  gwPc,            \* idle, request, wait, pause, done, failed
  gwOp,            \* "embed" (generateEmbedding) or "embedBatch"
  gwProvider,      \* PROVIDER: gemini, huggingface or openai
  gwTexts,         \* number of input texts; text k is identified by k
  gwChunkStart,    \* the loop variable i of the chunk loop (0-based)
  gwAttempt,       \* the loop variable attempt of the retry loop
  gwResults,       \* the vectors collected so far
  gwRequests,      \* provider requests issued by this call
  gwError          \* lastErr: the last error caught, thrown to the caller
                   \* when the call fails

\* ensureLeadsTable in one server process: the module variable ensured and
\* the requests that call it
VARIABLES
  databaseUrl,     \* process.env.DATABASE_URL: unread, set or unset
  ensured,         \* the module variable of db-migrate.ts
  migPc,           \* per request: idle, import, connect, query, wait,
                   \* endReturn, endRetry, endThrow (awaiting client.end()
                   \* in the finally block), returned, failed
  migStatement,    \* per request: index of the statement awaited
  migAttempt,      \* per request: the loop variable attempt
  migCompleted,    \* times the statement sequence was executed to its end
  migError         \* per request: the error ensureLeadsTable threw

\* POST /api/rank/db: the environment of the process and the requests, each
\* of which calls ensureLeadsTable first
VARIABLES
  supabaseEnv,     \* NEXT_PUBLIC_SUPABASE_URL and SUPABASE_SERVICE_ROLE_KEY:
                   \* unread, set (both) or unset
  apiKeyEnv,       \* the key of the embedding provider: unread, set, unset
  aiProvider,      \* PROVIDER of embeddings.ts: unread, or the provider
  maxLeadsEnv,     \* process.env.MAX_LEADS: whether it was read, and the
                   \* envMax derived from it
  dbPc,            \* per request: ensure, json, query, wait, embed,
                   \* embedWait, responded
  dbAttempt,       \* per request: the loop variable attempt of the query,
                   \* 0 outside the loop
  dbBody,          \* per request: characteristics and maxLeads of the body,
                   \* once characteristics is known not to be blank
  dbRows,          \* per request: the leads handed to the ranking
  dbCall,          \* per request: the gateway call the ranking awaits (1..3
                   \* generateEmbedding, 4 generateEmbeddingBatch), 0 outside
  dbEmbedAttempt,  \* per request: the loop variable attempt of that call
  dbResponse       \* per request: the response sent

optVars ==
  <<pc, maxIterations2, initialPrompt, evalLeads, embPresent, bestPrompt,
    bestScore, history, currentPrompt, iter, lastEval, firstProposed,
    proposed, proposeCalls, proposeArgs, numEvaluate, numRounds, embedCalls,
    failure, response>>

callVars == <<call, ret>>

gwVars ==
  <<gwPc, gwOp, gwProvider, gwTexts, gwChunkStart, gwAttempt, gwResults,
    gwRequests, gwError>>

\* the ranking in flight of a request
dbRankVars == <<dbRows, dbCall, dbEmbedAttempt>>

dbVars ==
  <<supabaseEnv, apiKeyEnv, aiProvider, maxLeadsEnv, dbPc, dbAttempt, dbBody,
    dbRankVars, dbResponse>>

\* the state of ensureLeadsTable
ensureVars ==
  <<databaseUrl, ensured, migPc, migStatement, migAttempt, migCompleted,
    migError>>

migVars ==
  <<databaseUrl, ensured, migPc, migStatement, migAttempt, migCompleted,
    migError, dbVars>>

vars == <<optVars, callVars, gwVars, migVars>>

NoCall == [fn |-> "none"]
NoRet == [ok |-> FALSE, error |-> NoText]

\* no library call has been made
CallIdle == call = NoCall /\ ret = NoRet

\* requests that may call ensureLeadsTable in one process
NumRequests == 2
Requests == 1..NumRequests

NoDbBody == [characteristics |-> << >>, maxLeads |-> [given |-> FALSE, value |-> 0]]
NoDbResponse == [status |-> 0]

\* no request has arrived
MigrationIdle ==
  /\ databaseUrl = "unread"
  /\ ensured = FALSE
  /\ migPc = [r \in Requests |-> "idle"]
  /\ migStatement = [r \in Requests |-> 0]
  /\ migAttempt = [r \in Requests |-> 0]
  /\ migCompleted = 0
  /\ migError = [r \in Requests |-> NewError(<< >>)]
  /\ supabaseEnv = "unread"
  /\ apiKeyEnv = "unread"
  /\ aiProvider = "unread"
  /\ maxLeadsEnv = [read |-> FALSE, envMax |-> [given |-> FALSE, value |-> 0]]
  /\ dbPc = [r \in Requests |-> "ensure"]
  /\ dbAttempt = [r \in Requests |-> 0]
  /\ dbBody = [r \in Requests |-> NoDbBody]
  /\ dbRows = [r \in Requests |-> << >>]
  /\ dbCall = [r \in Requests |-> 0]
  /\ dbEmbedAttempt = [r \in Requests |-> 0]
  /\ dbResponse = [r \in Requests |-> NoDbResponse]

\* no gateway call has been made
GatewayIdle ==
  /\ gwPc = "idle"
  /\ gwOp = "none"
  /\ gwProvider = "none"
  /\ gwTexts = 0
  /\ gwChunkStart = 0
  /\ gwAttempt = 0
  /\ gwResults = << >>
  /\ gwRequests = 0
  /\ gwError = "none"

NoEval == [score |-> 0, ourRanks |-> << >>, goldRanks |-> << >>]

\* no proposeImprovedPrompt call was made in the iteration
NoProposeArgs ==
  [currentPrompt |-> NoText, currentScore |-> 0, history |-> << >>,
   feedback |-> << >>, requireDifferent |-> FALSE]

Init ==
  /\ pc = "idle"
  /\ maxIterations2 = 0
  /\ initialPrompt = << >>
  /\ evalLeads = << >>
  /\ embPresent = << >>
  /\ bestPrompt = << >>
  /\ bestScore = -2
  /\ history = << >>
  /\ currentPrompt = << >>
  /\ iter = 0
  /\ lastEval = NoEval
  /\ firstProposed = NoText
  /\ proposed = NoText
  /\ proposeCalls = 0
  /\ proposeArgs = NoProposeArgs
  /\ numEvaluate = 0
  /\ numRounds = 0
  /\ embedCalls = 0
  /\ failure = NoFailure
  /\ response = NoResponse
  /\ CallIdle
  /\ GatewayIdle
  /\ MigrationIdle

(***************************************************************************)
(* The lead embedding step of the callers of generateEmbeddingBatch.  A    *)
(* fault names the gateway calls of the caller that throw (by their        *)
(* position among the calls made), the message of the error thrown inside  *)
(* the gateway, and the calls that return one vector fewer than the texts  *)
(* given (the OpenAI batch function returns response.data as it comes).    *)
(***************************************************************************)
EMBED_CHUNK_SIZE == 12
INGEST_EMBED_BATCH_SIZE == 32

TextIds(from, size) == [k \in 1..size |-> from + k - 1]

EmbedFailed(message, requests, vectors) ==
  [ok |-> FALSE, error |-> BatchErrorMessage(message), requests |-> requests,
   vectors |-> vectors]

RECURSIVE EmbedItems(_, _, _, _, _, _, _, _)
RECURSIVE EmbedChunks(_, _, _, _, _, _, _)

\* texts.slice(i, i + chunkSize).length
ChunkLen(chunkSize, n, i) == IF chunkSize < n - i THEN chunkSize ELSE n - i

\* the vectors gateway call number pos returns for size texts from text
\* from on
Returned(fault, pos, from, size) ==
  TextIds(from, IF pos \in fault.short THEN size - 1 ELSE size)

\* the loop over the texts: chunks of chunkSize texts from text i + 1 on;
\* fallsBack tells whether the caller has the catch block of part_000 lines
\* 68-80
EmbedChunks(chunkSize, fallsBack, n, fault, i, requests, vectors) ==
  IF i >= n
    THEN [ok |-> TRUE, error |-> NoText, requests |-> requests,
          vectors |-> vectors]
  ELSE IF Len(requests) + 1 \notin fault.at
    THEN EmbedChunks(chunkSize, fallsBack, n, fault,
                     i + ChunkLen(chunkSize, n, i),
                     Append(requests,
                            [from |-> i + 1,
                             size |-> ChunkLen(chunkSize, n, i)]),
                     vectors \o Returned(fault, Len(requests) + 1, i + 1,
                                         ChunkLen(chunkSize, n, i)))
  ELSE IF /\ fallsBack
          /\ isTimeout(BatchErrorMessage(fault.message))
          /\ ChunkLen(chunkSize, n, i) > 1
    THEN EmbedItems(chunkSize, n, fault, i, ChunkLen(chunkSize, n, i), 0,
                    Append(requests,
                           [from |-> i + 1,
                            size |-> ChunkLen(chunkSize, n, i)]),
                    vectors)
  ELSE EmbedFailed(fault.message,
                   Append(requests,
                          [from |-> i + 1,
                           size |-> ChunkLen(chunkSize, n, i)]),
                   vectors)

\* part_000 lines 72-76: the texts of the chunk one at a time, k of them
\* done; an error here is not caught
EmbedItems(chunkSize, n, fault, i, size, k, requests, vectors) ==
  IF k >= size
    THEN EmbedChunks(chunkSize, TRUE, n, fault, i + size, requests, vectors)
  ELSE IF Len(requests) + 1 \in fault.at
    THEN EmbedFailed(fault.message,
                     Append(requests, [from |-> i + k + 1, size |-> 1]),
                     vectors)
  ELSE EmbedItems(chunkSize, n, fault, i, size, k + 1,
                  Append(requests, [from |-> i + k + 1, size |-> 1]),
                  vectors \o Returned(fault, Len(requests) + 1, i + k + 1, 1))

\* part_000 lines 59-82
OptimizeEmbedLeads(n, fault) ==
  EmbedChunks(EMBED_CHUNK_SIZE, TRUE, n, fault, 0, << >>, << >>)

\* part_006 lines 101-107 of the ingestion route
IngestEmbedRows(n, fault) ==
  EmbedChunks(INGEST_EMBED_BATCH_SIZE, FALSE, n, fault, 0, << >>, << >>)

\* ranking.ts lines 52-53: one call with the texts of all leads
RankEmbedLeads(n, fault) ==
  EmbedChunks(n, FALSE, n, fault, 0, << >>, << >>)

(***************************************************************************)
(* POST /api/prompt-optimize (src/unnamed/part_000)                        *)
(***************************************************************************)
\* typeof body.maxIterations === 'number' && >= 1 && <= 10 ? it : default;
\* the result is twice the value passed on
RouteMaxIterations2(bodyMax) ==
  IF /\ bodyMax.isNumber
     /\ bodyMax.twice >= 2
     /\ bodyMax.twice <= 2 * MAX_ALLOWED_ITERATIONS
    THEN bodyMax.twice
    ELSE 2 * DEFAULT_MAX_ITERATIONS

\* part_000 lines 113-116
isQuotaError(err) ==
  \/ err.code = "insufficient_quota"
  \/ err.status = 429
  \/ TestIgnoreCase(err.message, <<"q","u","o","t","a">>)
  \/ Includes(err.message, <<"4","2","9">>)
  \/ TestIgnoreCase(err.message,
                    <<"i","n","s","u","f","f","i","c","i","e","n","t","_",
                      "q","u","o","t","a">>)

\* part_000 lines 117-120; err.cause is String(errObj.cause), empty when
\* the error has no cause
isTimeoutError(err) ==
  \/ err.code = "ETIMEDOUT"
  \/ isTimeout(err.message)
  \/ TestIgnoreCase(err.cause, <<"E","T","I","M","E","D","O","U","T">>)

\* status chosen by the catch block, lines 104-144
ErrorStatus(err) ==
  IF \/ Includes(err.message, <<"E","N","O","E","N","T">>)
     \/ Includes(err.message, <<"e","v","a","l","_","s","e","t">>)
    THEN 404
  ELSE IF isQuotaError(err) THEN 503
  ELSE IF isTimeoutError(err) THEN 504
  ELSE 500

\* fs.readFile of loadEvalSet fails: the file is missing, or a file named
\* by EVAL_CSV_PATH cannot be read
LoadErrors ==
  { ErrorWith(
      <<"E","N","O","E","N","T",":"," ","n","o"," ","s","u","c","h"," ","f",
        "i","l","e"," ","o","r"," ","d","i","r","e","c","t","o","r","y",",",
        " ","o","p","e","n"," ","d","a","t","a","/","e","v","a","l","/","e",
        "v","a","l","_","s","e","t",".","c","s","v">>,
      "ENOENT", 0, << >>),
    ErrorWith(
      <<"E","A","C","C","E","S",":"," ","p","e","r","m","i","s","s","i","o",
        "n"," ","d","e","n","i","e","d",","," ","o","p","e","n"," ","l","e",
        "a","d","s",".","c","s","v">>,
      "EACCES", 0, << >>) }

\* what loadEvalSet() returns or throws
EvalSetLoads ==
  {[ok |-> TRUE, leads |-> e, error |-> NewError(<< >>)] : e \in EvalSets}
    \cup {[ok |-> FALSE, leads |-> << >>, error |-> e] : e \in LoadErrors}

\* gateway calls of the lead embedding step that throw: none; the first
\* one; the first one and, after a timeout, the second single-text call.
\* Or no call throws and the first one returns a vector too few.
NoFault == [at |-> {}, message |-> << >>, short |-> {}]
OptimizeFaults ==
  {NoFault, [NoFault EXCEPT !.short = {1}]}
    \cup {[at |-> {1}, message |-> m, short |-> {}] :
            m \in {HfStatusMessage, QuotaPerDayMessage, EtimedoutMessage}}
    \cup {[at |-> {1, 3}, message |-> EtimedoutMessage, short |-> {}]}

\* messages of the errors thrown inside generateEmbedding during an
\* evaluation
EvaluateCauses ==
  {HfStatusMessage, QuotaPerDayMessage, EnoentModelMessage, EtimedoutMessage}

\* errors a proposeImprovedPrompt call throws: the key is missing
\* (prompt-optimizer.ts line 14), the provider answers with a status that
\* is not ok (line 257), fetch fails on a connection that timed out
ProposeErrors ==
  { NewError(
      <<"G","E","M","I","N","I","_","A","P","I","_","K","E","Y"," ","i","s",
        " ","r","e","q","u","i","r","e","d",".">>),
    NewError(
      <<"G","r","o","q"," ","A","P","I"," ","4","2","9",":"," ","r","a","t",
        "e"," ","l","i","m","i","t"," ","r","e","a","c","h","e","d">>),
    NewError(
      <<"G","r","o","q"," ","A","P","I"," ","5","0","0",":"," ","c","a","n",
        "n","o","t"," ","o","p","e","n"," ","e","v","a","l","_","s","e","t",
        " ","s","h","a","r","d">>),
    ErrorWith(<<"f","e","t","c","h"," ","f","a","i","l","e","d">>, "", 0,
              <<"E","r","r","o","r",":"," ","c","o","n","n","e","c","t"," ",
                "E","T","I","M","E","D","O","U","T"," ","1","0",".","0",".",
                "0",".","1",":","4","4","3">>) }

ErrorResponse(status) == [status |-> status]

RunNotStarted ==
  UNCHANGED <<maxIterations2, initialPrompt, evalLeads, embPresent, bestPrompt,
              bestScore, history, currentPrompt, iter, lastEval, firstProposed,
              proposed, proposeCalls, numEvaluate, numRounds, embedCalls,
              failure>>

\* the handler answers without having called runOptimization
Answer(status) ==
  /\ response' = ErrorResponse(status)
  /\ pc' = "responded"
  /\ RunNotStarted

\* the handler up to the call of runOptimization, and the first statements
\* of runOptimization (its variable initialisation); present tells which of
\* the vectors returned by the gateway are non-empty
Post(rawInitial, bodyMax, load, hasProvider, fault, present) ==
  /\ pc = "idle"
  /\ UNCHANGED <<callVars, gwVars, migVars>>
  /\ UNCHANGED proposeArgs
  /\ LET rawPrompt == Trim(rawInitial)
     IN  IF Len(rawPrompt) = 0 THEN Answer(400)
         ELSE IF ~load.ok THEN Answer(ErrorStatus(load.error))
         ELSE IF Len(load.leads) < MIN_EVAL_LEADS THEN Answer(400)
         ELSE IF ~hasProvider THEN Answer(500)
         ELSE IF ~OptimizeEmbedLeads(Len(load.leads), fault).ok
           THEN Answer(ErrorStatus(NewError(
                  OptimizeEmbedLeads(Len(load.leads), fault).error)))
         ELSE IF Len(OptimizeEmbedLeads(Len(load.leads), fault).vectors)
                   # Len(load.leads)
           THEN Answer(500)
         ELSE /\ pc' = "loop"
              /\ maxIterations2' = RouteMaxIterations2(bodyMax)
              /\ initialPrompt' = rawPrompt
              /\ evalLeads' = load.leads
              /\ embPresent' = present
              /\ bestPrompt' = rawPrompt
              /\ bestScore' = -2 * SpearmanDen(Len(load.leads))
              /\ history' = << >>
              /\ currentPrompt' = rawPrompt
              /\ iter' = 0
              /\ UNCHANGED <<lastEval, firstProposed, proposed, proposeCalls,
                             numEvaluate, numRounds, embedCalls, failure,
                             response>>

(***************************************************************************)
(* runOptimization (src/lib/prompt-optimizer.ts)                           *)
(***************************************************************************)
\* iter < maxIterations
LoopCondition == 2 * iter < maxIterations2

\* iter === maxIterations - 1
IsLastIteration == 2 * iter = maxIterations2 - 2

ImprovesBestAlways(score, best) == TRUE

ImprovesBestOrTies(score, best) == score >= best

\* if (score > bestScore)
ImprovesBest(score, best) == score > best

PushHistoryFront(h, entry) == <<entry>> \o h

\* history.push({ prompt: currentPrompt, score })
PushHistory(h, entry) == Append(h, entry)

NextCurrentPromptUnchecked(prop, best) == prop

\* if (!proposed || proposed.length < 20) currentPrompt = bestPrompt
\* else currentPrompt = proposed
NextCurrentPrompt(prop, best) ==
  IF Len(prop) = 0 \/ Len(prop) < MIN_PROPOSAL_LENGTH THEN best ELSE prop

\* history.slice(-3)
RecentHistory(h) ==
  IF Len(h) <= HISTORY_WINDOW THEN h ELSE SubSeq(h, Len(h) - HISTORY_WINDOW + 1, Len(h))

\* lines 366-370: the arguments of proposeImprovedPrompt
ProposeArgs(requireDifferent) ==
  [currentPrompt |-> currentPrompt,
   currentScore |-> lastEval.score,
   history |-> RecentHistory(history),
   feedback |-> buildRankingFeedback(evalLeads, lastEval.ourRanks,
                                     lastEval.goldRanks),
   requireDifferent |-> requireDifferent]

\* the value runOptimization returns
OptimizationResult ==
  [bestPrompt |-> bestPrompt, bestScore |-> bestScore, history |-> history,
   iterations2 |-> maxIterations2]

RunInputsUnchanged == UNCHANGED <<maxIterations2, initialPrompt, evalLeads, embPresent>>

\* one evaluation that returns: lines 358-365
Evaluate(sims) ==
  /\ pc = "loop"
  /\ UNCHANGED <<callVars, gwVars, migVars>>
  /\ proposeArgs' = NoProposeArgs
  /\ LoopCondition
  /\ ~ProfileIsEmpty(currentPrompt)
  /\ lastEval' = evaluatePromptOnEvalSet(currentPrompt, evalLeads, embPresent, sims)
  /\ history' = PushHistory(history, [prompt |-> currentPrompt,
                                      score |-> lastEval'.score])
  /\ IF ImprovesBest(lastEval'.score, bestScore)
       THEN /\ bestScore' = lastEval'.score
            /\ bestPrompt' = currentPrompt
       ELSE UNCHANGED <<bestScore, bestPrompt>>
  /\ numEvaluate' = numEvaluate + 1
  /\ embedCalls' = embedCalls + PersonaEmbeddingCalls(currentPrompt)
  /\ pc' = IF IsLastIteration THEN "returned" ELSE "propose"
  /\ firstProposed' = NoText
  /\ proposed' = NoText
  /\ proposeCalls' = 0
  /\ RunInputsUnchanged
  /\ UNCHANGED <<currentPrompt, iter, numRounds, failure, response>>

\* evaluatePromptOnEvalSet throws 'Profile cannot be empty.' before any
\* embedding call
EvaluateEmptyProfile ==
  /\ pc = "loop"
  /\ UNCHANGED <<callVars, gwVars, migVars>>
  /\ UNCHANGED proposeArgs
  /\ LoopCondition
  /\ ProfileIsEmpty(currentPrompt)
  /\ pc' = "failed"
  /\ failure' = [source |-> "profile", error |-> NewError(EmptyProfileError)]
  /\ RunInputsUnchanged
  /\ UNCHANGED <<bestPrompt, bestScore, history, currentPrompt, iter, lastEval,
                 firstProposed, proposed, proposeCalls, numEvaluate, numRounds,
                 embedCalls, response>>

\* the k-th generateEmbedding call of the evaluation throws
EvaluateEmbeddingFails(k, message) ==
  /\ pc = "loop"
  /\ UNCHANGED <<callVars, gwVars, migVars>>
  /\ UNCHANGED proposeArgs
  /\ LoopCondition
  /\ ~ProfileIsEmpty(currentPrompt)
  /\ k <= PersonaEmbeddingCalls(currentPrompt)
  /\ embedCalls' = embedCalls + k
  /\ pc' = "failed"
  /\ failure' = [source |-> "embedding",
                  error |-> NewError(EmbeddingError(message))]
  /\ RunInputsUnchanged
  /\ UNCHANGED <<bestPrompt, bestScore, history, currentPrompt, iter, lastEval,
                 firstProposed, proposed, proposeCalls, numEvaluate, numRounds,
                 response>>

\* the loop condition fails: the return statement of line 379
LoopExit ==
  /\ pc = "loop"
  /\ UNCHANGED <<callVars, gwVars, migVars>>
  /\ UNCHANGED proposeArgs
  /\ ~LoopCondition
  /\ pc' = "returned"
  /\ RunInputsUnchanged
  /\ UNCHANGED <<bestPrompt, bestScore, history, currentPrompt, iter, lastEval,
                 firstProposed, proposed, proposeCalls, numEvaluate, numRounds,
                 embedCalls, failure, response>>

\* lines 372-376 and the iter++ of the loop
AcceptOrReject(prop) ==
  /\ currentPrompt' = NextCurrentPrompt(prop, bestPrompt)
  /\ iter' = iter + 1
  /\ pc' = "loop"

\* the first proposeImprovedPrompt of an iteration returns: lines 366-369
Propose(raw) ==
  /\ pc = "propose"
  /\ UNCHANGED <<callVars, gwVars, migVars>>
  /\ proposeArgs' = ProposeArgs(FALSE)
  /\ proposed' = proposedFromReply(raw)
  /\ firstProposed' = proposed'
  /\ IF isSamePrompt(proposed', currentPrompt)
       THEN /\ pc' = "propose2"
            /\ UNCHANGED <<currentPrompt, iter>>
       ELSE AcceptOrReject(proposed')
  /\ proposeCalls' = 1
  /\ numRounds' = numRounds + 1
  /\ RunInputsUnchanged
  /\ UNCHANGED <<bestPrompt, bestScore, history, lastEval, numEvaluate,
                 embedCalls, failure, response>>

\* the re-request with requireDifferent returns: lines 370-376
ProposeAgain(raw) ==
  /\ pc = "propose2"
  /\ UNCHANGED <<callVars, gwVars, migVars>>
  /\ proposeArgs' = ProposeArgs(TRUE)
  /\ proposed' = proposedFromReply(raw)
  /\ AcceptOrReject(proposed')
  /\ proposeCalls' = 2
  /\ RunInputsUnchanged
  /\ UNCHANGED <<bestPrompt, bestScore, history, lastEval, firstProposed,
                 numEvaluate, numRounds, embedCalls, failure, response>>

\* a proposeImprovedPrompt call throws (missing key, non-OK provider reply)
ProposeFails(err) ==
  /\ pc \in {"propose", "propose2"}
  /\ UNCHANGED <<callVars, gwVars, migVars>>
  /\ proposeArgs' = ProposeArgs(pc = "propose2")
  /\ proposeCalls' = proposeCalls + 1
  /\ numRounds' = IF pc = "propose" THEN numRounds + 1 ELSE numRounds
  /\ pc' = "failed"
  /\ failure' = [source |-> "propose", error |-> err]
  /\ RunInputsUnchanged
  /\ UNCHANGED <<bestPrompt, bestScore, history, currentPrompt, iter, lastEval,
                 firstProposed, proposed, numEvaluate, embedCalls, response>>

\* runOptimization returned: the handler answers with its result
Respond ==
  /\ pc = "returned"
  /\ UNCHANGED <<callVars, gwVars, migVars>>
  /\ UNCHANGED proposeArgs
  /\ response' = [status |-> 200, result |-> OptimizationResult]
  /\ pc' = "responded"
  /\ RunInputsUnchanged
  /\ UNCHANGED <<bestPrompt, bestScore, history, currentPrompt, iter, lastEval,
                 firstProposed, proposed, proposeCalls, numEvaluate, numRounds,
                 embedCalls, failure>>

\* runOptimization threw: the catch block of the handler answers
Catch ==
  /\ pc = "failed"
  /\ UNCHANGED <<callVars, gwVars, migVars>>
  /\ UNCHANGED proposeArgs
  /\ response' = ErrorResponse(ErrorStatus(failure.error))
  /\ pc' = "responded"
  /\ RunInputsUnchanged
  /\ UNCHANGED <<bestPrompt, bestScore, history, currentPrompt, iter, lastEval,
                 firstProposed, proposed, proposeCalls, numEvaluate, numRounds,
                 embedCalls, failure>>

Next ==
  \/ \E rawInitial \in RawInitialPrompts, bodyMax \in BodyMaxIterations,
        load \in EvalSetLoads, hasProvider \in BOOLEAN,
        fault \in OptimizeFaults :
       \E present \in OptimizePresentInputs(Len(load.leads), bodyMax) :
         Post(rawInitial, bodyMax, load, hasProvider, fault, present)
  \/ \E sims \in SimInputs(Len(evalLeads)) : Evaluate(sims)
  \/ EvaluateEmptyProfile
  \/ \E k \in 1..3, message \in EvaluateCauses :
       EvaluateEmbeddingFails(k, message)
  \/ LoopExit
  \/ \E raw \in RawReplies : Propose(raw)
  \/ \E raw \in RawReplies : ProposeAgain(raw)
  \/ \E err \in ProposeErrors : ProposeFails(err)
  \/ Respond
  \/ Catch

Spec == Init /\ [][Next]_vars

TypeOK ==
  /\ pc \in {"idle", "loop", "propose", "propose2", "returned", "failed", "responded"}
  /\ iter \in 0..(2 * MAX_ALLOWED_ITERATIONS)
  /\ proposeCalls \in 0..2

(***************************************************************************)
(* Direct calls of the library operations.  Each action is one call of an  *)
(* exported function with arguments drawn from bounded sets; call records  *)
(* the arguments and ret what the function returned or threw.              *)
(***************************************************************************)
\* longest rank array handed to spearmanCorrelation
MaxRanks == 3

\* the rank arrays: every array of length 0..MaxRanks with entries in
\* 1..MaxRanks
RankArrays == UNION {[1..n -> 1..MaxRanks] : n \in 0..MaxRanks}

\* spearmanCorrelation(ourRanks, goldRanks); the returned number is
\* score / den
CallSpearman(ourRanks, goldRanks) ==
  /\ CallIdle
  /\ call' = [fn |-> "spearmanCorrelation", ourRanks |-> ourRanks,
               goldRanks |-> goldRanks]
  /\ ret' = [ok |-> TRUE, error |-> NoText,
              score |-> spearmanCorrelation(ourRanks, goldRanks),
              den |-> SpearmanDen(Len(ourRanks))]
  /\ UNCHANGED <<optVars, gwVars, migVars>>

\* largest evaluation set handed to a direct evaluatePromptOnEvalSet call
MaxEvalLeads == 4

\* an evaluation set whose first two rows carry the same Full Name and
\* Company: loadEvalSet keeps every row that has a numeric Rank
DupEvalLeadsOf(n) ==
  [i \in 1..n |->
     [lead |-> [FullName |-> LeadNames[IF i = 2 THEN 1 ELSE i],
                Company |-> "Acme"],
      goldRank |-> i]]

EvalSetsForCalls ==
  {EvalLeadsOf(n) : n \in 1..MaxEvalLeads}
    \cup {DupEvalLeadsOf(n) : n \in 2..MaxEvalLeads}

\* a Target label with an empty body
EmptyTargetProfile ==
  <<"T","a","r","g","e","t",":"," "," ",NL,"P","r","e","f","e","r",":"," ",
    "s","m","b">>

PersonaTexts ==
  {InitialTarget, ReplyGood, ReplyAvoidOnly, ReplyFree, EmptyTargetProfile}


\* what evaluatePromptOnEvalSet returns or throws; fail.at = k > 0 makes the
\* k-th generateEmbedding call of the evaluation throw
EvaluateOutcome(characteristics, leads, present, sims, fail) ==
  IF ProfileIsEmpty(characteristics)
    THEN [ok |-> FALSE, error |-> EmptyProfileError, embedCalls |-> 0]
  ELSE IF fail.at > 0 /\ fail.at <= PersonaEmbeddingCalls(characteristics)
    THEN [ok |-> FALSE, error |-> EmbeddingError(fail.message),
          embedCalls |-> fail.at]
  ELSE [ok |-> TRUE, error |-> NoText,
        embedCalls |-> PersonaEmbeddingCalls(characteristics),
        den |-> SpearmanDen(Len(leads)),
        result |-> evaluatePromptOnEvalSet(characteristics, leads, present, sims)]

\* evaluatePromptOnEvalSet(characteristics, evalLeads, leadEmbeddings)
CallEvaluate(characteristics, leads, present, sims, fail) ==
  /\ CallIdle
  /\ call' = [fn |-> "evaluatePromptOnEvalSet",
               characteristics |-> characteristics, evalLeads |-> leads,
               embPresent |-> present, sims |-> sims]
  /\ ret' = EvaluateOutcome(characteristics, leads, present, sims, fail)
  /\ UNCHANGED <<optVars, gwVars, migVars>>

(***************************************************************************)
(* rankLeadsAgainstPersona (src/lib/ranking.ts).  A lead is its position   *)
(* in the input (id) and the cosine similarities of its embedding with the *)
(* three persona embeddings, in hundredths; scores are numbers.            *)
(***************************************************************************)
TOP_N == 10
\* const MIN_SCORE = 0.3
MIN_SCORE == Decimal(3, 10)

(***************************************************************************)
(* Similarities of the enumerated leads.  The similarities of the leads of *)
(* one call are those of one set of embeddings.  With the three persona    *)
(* embeddings orthogonal to each other (unit vectors e1, e2, e3) a lead    *)
(* embedding (t, a, p, sqrt(1 - t^2 - a^2 - p^2)) has the similarities     *)
(* (t, a, p), for every t, a, p whose squares sum to less than 1.  With    *)
(* the Target and Prefer embeddings equal and the Avoid embedding opposite *)
(* to them a lead embedding at cosine c from the Target has the            *)
(* similarities (c, -c, c).  A single lead can have any three              *)
(* similarities.                                                           *)
(***************************************************************************)
\* similarities of a lead: close to Target; equally close to Target and
\* close to Avoid; far from Target
LeadSims ==
  { [t |-> 80, a |-> 0, p |-> 0],
    [t |-> 80, a |-> 60, p |-> 0],
    [t |-> -60, a |-> 0, p |-> 40] }

\* every combination of three similarities on a grid of [-1, 1]
SimGrid == {-100, -50, 0, 50, 100}
GridSims == [t : SimGrid, a : SimGrid, p : SimGrid]

\* Target similarity falling by 0.15 per lead
LongSims == [i \in 1..(TOP_N + 2) |-> [t |-> 100 - 15 * i, a |-> 0, p |-> 0]]

\* a lead whose score is 0.3 in decimal arithmetic and 0.29999999999999993
\* as a number ((-0.91 + 0.35 * 0.95 + 0.25 * 0.03 + 1.35) / 2.6), and two
\* leads whose raw scores are both -0.51 in decimal arithmetic and differ as
\* numbers
FloorSims == [t |-> -91, a |-> -95, p |-> 3]
NearTieSims ==
  <<[t |-> -60, a |-> -60, p |-> -48], [t |-> -29, a |-> 40, p |-> -32]>>

\* leads against orthogonal persona embeddings: Target and Avoid a little
\* apart with Prefer far apart, and three leads far from the Target
OrthogonalPersonaSims ==
  { [t |-> 50, a |-> 0, p |-> -80], [t |-> 40, a |-> 10, p |-> 80],
    [t |-> 50, a |-> 0, p |-> 80], [t |-> 40, a |-> 10, p |-> -80],
    [t |-> -60, a |-> 30, p |-> -40], [t |-> -70, a |-> -30, p |-> -50],
    [t |-> -80, a |-> 0, p |-> -50], [t |-> -75, a |-> 20, p |-> -60] }

\* the similarities can be those of embeddings against orthogonal personas
FitsOrthogonalPersonas(sims) ==
  sims.t * sims.t + sims.a * sims.a + sims.p * sims.p < 100 * 100

\* leads against aligned persona embeddings: two whose score is clamped
AlignedPersonaSims ==
  { [t |-> c, a |-> -c, p |-> c] : c \in {100, 90, 30} }

EnumeratedSims ==
  LeadSims \cup GridSims \cup {LongSims[i] : i \in 1..(TOP_N + 2)}
    \cup {FloorSims, NearTieSims[1], NearTieSims[2]}
    \cup OrthogonalPersonaSims \cup AlignedPersonaSims

\* lines 62-66 without Math.max / Math.min
normalizedScoreUnclamped(simTarget, simAvoid, simPrefer, hasAvoid, hasPrefer) ==
  IF hasAvoid \/ hasPrefer
    THEN DblDiv(DblAdd(rawScore(simTarget, simAvoid, simPrefer), ScoreOffset),
                ScoreRange)
    ELSE DblDiv(DblAdd(Hundredth(simTarget), DblOne), DblTwo)

\* lines 62-66: rawScore and normalizedScore
normalizedScore(simTarget, simAvoid, simPrefer, hasAvoid, hasPrefer) ==
  IF hasAvoid \/ hasPrefer
    THEN DblMax(DblZero,
                DblMin(DblOne,
                       DblDiv(DblAdd(rawScore(simTarget, simAvoid, simPrefer),
                                     ScoreOffset),
                              ScoreRange)))
    ELSE DblDiv(DblAdd(Hundredth(simTarget), DblOne), DblTwo)

\* an optional number of the options object or of the environment
NoNumber == [given |-> FALSE, value |-> 0]
SomeNumber(v) == [given |-> TRUE, value |-> v]

\* line 43: options?.maxLeads ?? envMax
MaxLeadsOf(options, envMax) ==
  IF options.maxLeads.given THEN options.maxLeads ELSE envMax

\* lines 41-46
LeadSlice(leads, options, envMax) ==
  IF MaxLeadsOf(options, envMax).given
       /\ Len(leads) > MaxLeadsOf(options, envMax).value
    THEN SliceTo(leads, MaxLeadsOf(options, envMax).value)
    ELSE leads

\* line 49: options?.leadEmbeddings && options.leadEmbeddings.length === slice.length
ReusesLeadEmbeddings(options, leads, slice) ==
  options.leadEmbeddings.given /\ options.leadEmbeddings.value = Len(slice)

\* the arguments of normalizedScore for the enumerated similarities
ScoreArguments ==
  { <<g.t, IF hasAvoid THEN g.a ELSE 0, IF hasPrefer THEN g.p ELSE 0,
      hasAvoid, hasPrefer>> :
      g \in EnumeratedSims, hasAvoid \in BOOLEAN, hasPrefer \in BOOLEAN }

\* normalizedScore of the enumerated similarities, computed once
EnumeratedScores ==
  [k \in ScoreArguments |-> normalizedScore(k[1], k[2], k[3], k[4], k[5])]
    @@ << >>

\* normalizedScore, looked up where it was computed before
ScoreOf(simTarget, simAvoid, simPrefer, hasAvoid, hasPrefer) ==
  IF <<simTarget, simAvoid, simPrefer, hasAvoid, hasPrefer>> \in ScoreArguments
    THEN EnumeratedScores[<<simTarget, simAvoid, simPrefer, hasAvoid, hasPrefer>>]
    ELSE normalizedScore(simTarget, simAvoid, simPrefer, hasAvoid, hasPrefer)

\* lines 58-68 with the Prefer similarity subtracted instead of added
RankScoresPreferAsPenalty(slice, hasAvoid, hasPrefer) ==
  SeqOf([i \in 1..Len(slice) |->
           normalizedScore(slice[i].sims.t,
                           IF hasAvoid THEN slice[i].sims.a ELSE 0,
                           IF hasPrefer THEN -slice[i].sims.p ELSE 0,
                           hasAvoid, hasPrefer)])

\* lines 58-68: the score of every lead of the slice
RankScores(slice, hasAvoid, hasPrefer) ==
  SeqOf([i \in 1..Len(slice) |->
           ScoreOf(slice[i].sims.t,
                           IF hasAvoid THEN slice[i].sims.a ELSE 0,
                           IF hasPrefer THEN slice[i].sims.p ELSE 0,
                           hasAvoid, hasPrefer)])

\* line 71: options?.topN ?? TOP_N
TopNOf(options) == IF options.topN.given THEN options.topN.value ELSE TOP_N

\* lines 72-77 without the filter of line 78
RankedUnfiltered(slice, scores, order, topN) ==
  [k \in 1..SliceEnd(Len(order), topN) |->
     [lead |-> slice[order[k]].id, score |-> scores[order[k]],
      similarity |-> slice[order[k]].sims.t, rank |-> k]]

\* lines 72-78: scored.slice(0, topN), the rank of each entry, the filter
RankedFiltered(slice, scores, order, topN) ==
  LET AboveFloor(item) == DblLeq(MIN_SCORE, item.score)
  IN  SelectSeq([k \in 1..SliceEnd(Len(order), topN) |->
                   [lead |-> slice[order[k]].id, score |-> scores[order[k]],
                    similarity |-> slice[order[k]].sims.t, rank |-> k]],
                AboveFloor)

\* lines 70-84 for the scored slice
RankResult(slice, scores, topN, personaCalls, reused) ==
  [ok |-> TRUE, error |-> NoText,
   embedCalls |-> personaCalls,
   leadEmbedCall |-> ~reused,
   leadTexts |-> IF reused THEN 0 ELSE Len(slice),
   scores |-> scores,
   rankedLeads |-> RankedFiltered(slice, scores, SortDesc(scores), topN),
   totalProcessed |-> Len(slice)]

RankError(error, personaCalls, leadCall, texts) ==
  [ok |-> FALSE, error |-> error, embedCalls |-> personaCalls,
   leadEmbedCall |-> leadCall, leadTexts |-> texts]

\* lines 48-84; fail.at = 4 makes the provider request of
\* generateEmbeddingBatch throw; for no text the gateway returns [] without
\* a request (embeddings.ts line 396)
RankSlice(parsed, slice, topN, reused, fail) ==
  IF ~reused /\ fail.at = 4 /\ Len(slice) > 0
    THEN RankError(BatchErrorMessage(fail.message), SlotCalls(parsed), TRUE,
                   Len(slice))
    ELSE RankResult(slice,
                    RankScores(slice, parsed.avoidText # NullText,
                               parsed.preferText # NullText),
                    topN, SlotCalls(parsed), reused)

\* lines 35-84 without the test of lines 31-33
RankParsedUnchecked(parsed, leads, options, envMax, fail) ==
  IF fail.at >= 1 /\ fail.at <= SlotCalls(parsed)
    THEN RankError(EmbeddingError(fail.message), fail.at, FALSE, 0)
  ELSE RankSlice(parsed, LeadSlice(leads, options, envMax), TopNOf(options),
                 ReusesLeadEmbeddings(options, leads,
                                      LeadSlice(leads, options, envMax)),
                 fail)

\* lines 31-84 for the parsed profile; fail.at = k in 1..3 makes the k-th
\* generateEmbedding call throw
RankParsed(parsed, leads, options, envMax, fail) ==
  IF Len(Trim(parsed.targetText)) = 0
    THEN RankError(EmptyProfileError, 0, FALSE, 0)
  ELSE IF fail.at >= 1 /\ fail.at <= SlotCalls(parsed)
    THEN RankError(EmbeddingError(fail.message), fail.at, FALSE, 0)
  ELSE RankSlice(parsed, LeadSlice(leads, options, envMax), TopNOf(options),
                 ReusesLeadEmbeddings(options, leads,
                                      LeadSlice(leads, options, envMax)),
                 fail)

\* what rankLeadsAgainstPersona(leads, characteristics, options) returns or
\* throws; envMax is the value derived from process.env.MAX_LEADS (line 42)
rankLeadsAgainstPersona(leads, characteristics, options, envMax, fail) ==
  RankParsed(parseProfileForEmbedding(characteristics), leads, options,
             envMax, fail)

CallRank(leads, characteristics, options, envMax, fail) ==
  /\ CallIdle
  /\ call' = [fn |-> "rankLeadsAgainstPersona", leads |-> leads,
               characteristics |-> characteristics, options |-> options,
               envMax |-> envMax]
  /\ ret' = rankLeadsAgainstPersona(leads, characteristics, options, envMax,
                                     fail)
  /\ UNCHANGED <<optVars, gwVars, migVars>>

(***************************************************************************)
(* Direct calls of parseProfileForEmbedding on texts assembled from        *)
(* labels, word fragments, whitespace and markdown.                        *)
(***************************************************************************)
\* most tokens a text is assembled from
MaxTokens == 3

ParserTokens ==
  { <<"T","a","r","g","e","t",":">>,
    <<"A","V","O","I","D"," ",":">>,
    <<"p","r","e","f","e","r",":">>,
    <<"r","e">>,
    <<" ">>,
    <<NL>>,
    <<"*","*","x","*","*">> }

RECURSIVE TokenTexts(_)
TokenTexts(n) ==
  IF n = 0 THEN {<< >>}
  ELSE TokenTexts(n - 1)
         \cup {t \o tok : t \in TokenTexts(n - 1), tok \in ParserTokens}

\* free-form text with markdown residue
FreeMarkdown ==
  <<"*","*","s","e","n","i","o","r","*","*"," ","s","a","l","e","s",NL,NL,
    "-"," ","n","o"," ","h","r">>

ParserTexts ==
  TokenTexts(MaxTokens) \cup PersonaTexts \cup {FreeMarkdown, InitialPadded}

CallParse(characteristics) ==
  /\ CallIdle
  /\ call' = [fn |-> "parseProfileForEmbedding",
               characteristics |-> characteristics]
  /\ ret' = [ok |-> TRUE, error |-> NoText,
              value |-> parseProfileForEmbedding(characteristics)]
  /\ UNCHANGED <<optVars, gwVars, migVars>>

\* longest enumerated lead list handed to rankLeadsAgainstPersona
MaxRankLeads == 3

LeadsOfSims(simsList) ==
  [i \in 1..Len(simsList) |-> [id |-> i, sims |-> simsList[i]]]

LeadLists ==
  {LeadsOfSims(l) : l \in UNION {[1..n -> LeadSims] : n \in 0..MaxRankLeads}}

\* every combination of three similarities on a grid of [-1, 1]
GridLeads == {<<[id |-> 1, sims |-> g]>> : g \in GridSims}

\* more leads than TOP_N, Target similarity falling by 0.15 per lead: under
\* a Target-only persona the 10th lead scores 0.25
LongLeads == [i \in 1..(TOP_N + 2) |-> [id |-> i, sims |-> LongSims[i]]]

BoundaryLeads ==
  { LeadsOfSims(<<FloorSims>>), LeadsOfSims(<<NearTieSims[1], NearTieSims[2]>>) }

\* the scenario of a persona with Target, Avoid and Prefer against three
\* leads: the similarities of the leads of one call are those of one set
\* of embeddings
ScenarioLeads ==
  {LeadsOfSims(l) : l \in [1..3 -> {g \in OrthogonalPersonaSims :
                                       FitsOrthogonalPersonas(g)}]
                         \cup [1..3 -> AlignedPersonaSims]}

NoOptions ==
  [topN |-> NoNumber, maxLeads |-> NoNumber, leadEmbeddings |-> NoNumber]

\* the options object: topN, maxLeads, and the length of leadEmbeddings; a
\* direct caller may pass a negative lead limit
RankOptions(leads) ==
  [topN : {NoNumber, SomeNumber(1), SomeNumber(2)},
   maxLeads : {NoNumber, SomeNumber(2), SomeNumber(-1)},
   leadEmbeddings : {NoNumber, SomeNumber(Len(leads)), SomeNumber(2)}]

\* line 42: MAX_LEADS unset, or set to a positive number
EnvMaxLeads == {NoNumber, SomeNumber(1)}

(***************************************************************************)
(* leadToText (src/lib/embeddings.ts).  A lead is the sequence of its      *)
(* entries [key, value] in the order of Object.entries; keys and values    *)
(* are texts.  The result is kept as its parts (label and value) and as    *)
(* the text assembled from them.                                           *)
(***************************************************************************)
UpperOf == [c \in LowerChars |-> UpperSeq[CHOOSE k \in 1..26 : LowerSeq[k] = c]]

ToUpper(c) == IF c \in LowerChars THEN UpperOf[c] ELSE c

\* String.prototype.toLowerCase / toUpperCase
toLowerCase(s) == [k \in 1..Len(s) |-> ToLower(s[k])]
toUpperCase(s) == [k \in 1..Len(s) |-> ToUpper(s[k])]

\* lead[key]; a missing key gives undefined, falsy like the empty text
LeadGet(lead, key) ==
  IF \E e \in 1..Len(lead) : lead[e].key = key
    THEN lead[CHOOSE e \in 1..Len(lead) : lead[e].key = key].value
    ELSE << >>

\* lead[field] || lead[field.toLowerCase()] || lead[field.toUpperCase()]
LookupField(lead, field) ==
  IF LeadGet(lead, field) # << >> THEN LeadGet(lead, field)
  ELSE IF LeadGet(lead, toLowerCase(field)) # << >>
    THEN LeadGet(lead, toLowerCase(field))
  ELSE LeadGet(lead, toUpperCase(field))

\* lines 50-58: the first alias whose value is not blank
RECURSIVE getFieldValue(_, _)
getFieldValue(lead, possibleFields) ==
  IF possibleFields = << >> THEN << >>
  ELSE IF Len(Trim(LookupField(lead, Head(possibleFields)))) > 0
    THEN LookupField(lead, Head(possibleFields))
  ELSE getFieldValue(lead, Tail(possibleFields))

TitleFields == <<<<"l","e","a","d","_","j","o","b","_","t","i","t","l","e">>,
    <<"T","i","t","l","e">>,
    <<"t","i","t","l","e">>>>
CompanyFields == <<<<"a","c","c","o","u","n","t","_","n","a","m","e">>,
    <<"C","o","m","p","a","n","y">>,
    <<"c","o","m","p","a","n","y">>>>
IndustryFields == <<<<"a","c","c","o","u","n","t","_","i","n","d","u","s","t","r","y">>,
    <<"I","n","d","u","s","t","r","y">>,
    <<"i","n","d","u","s","t","r","y">>>>
EmployeeRangeFields ==
  <<<<"a","c","c","o","u","n","t","_","e","m","p","l","o","y","e","e","_","r",
  "a","n","g","e">>,
    <<"E","m","p","l","o","y","e","e"," ","R","a","n","g","e">>,
    <<"e","m","p","l","o","y","e","e","_","r","a","n","g","e">>>>
FullNameFields == <<<<"F","u","l","l"," ","N","a","m","e">>,
    <<"f","u","l","l","_","n","a","m","e">>>>
FirstNameFields == <<<<"l","e","a","d","_","f","i","r","s","t","_","n","a","m","e">>>>
LastNameFields == <<<<"l","e","a","d","_","l","a","s","t","_","n","a","m","e">>>>
DomainFields == <<<<"a","c","c","o","u","n","t","_","d","o","m","a","i","n">>,
    <<"d","o","m","a","i","n">>>>

\* lines 84-91
shownKeys ==
  {<<"F","u","l","l"," ","N","a","m","e">>,
   <<"f","u","l","l","_","n","a","m","e">>,
   <<"l","e","a","d","_","f","i","r","s","t","_","n","a","m","e">>,
   <<"l","e","a","d","_","l","a","s","t","_","n","a","m","e">>,
   <<"l","e","a","d","_","j","o","b","_","t","i","t","l","e">>,
   <<"T","i","t","l","e">>,
   <<"t","i","t","l","e">>,
   <<"a","c","c","o","u","n","t","_","n","a","m","e">>,
   <<"C","o","m","p","a","n","y">>,
   <<"c","o","m","p","a","n","y">>,
   <<"a","c","c","o","u","n","t","_","i","n","d","u","s","t","r","y">>,
   <<"I","n","d","u","s","t","r","y">>,
   <<"i","n","d","u","s","t","r","y">>,
   <<"a","c","c","o","u","n","t","_","e","m","p","l","o","y","e","e","_","r",
  "a","n","g","e">>,
   <<"E","m","p","l","o","y","e","e"," ","R","a","n","g","e">>,
   <<"e","m","p","l","o","y","e","e","_","r","a","n","g","e">>,
   <<"a","c","c","o","u","n","t","_","d","o","m","a","i","n">>,
   <<"d","o","m","a","i","n">>,
   <<"L","I">>,
   <<"l","i","n","k","e","d","i","n">>,
   <<"L","i","n","k","e","d","I","n">>,
   <<"R","a","n","k">>}

RoleLabel == <<"R","o","l","e">>
CompanyLabel == <<"C","o","m","p","a","n","y">>
IndustryLabel == <<"I","n","d","u","s","t","r","y">>
CompanySizeLabel == <<"C","o","m","p","a","n","y"," ","s","i","z","e">>
NameLabel == <<"N","a","m","e">>
DomainLabel == <<"D","o","m","a","i","n">>

\* if (value) parts.push(`Label: ${value}`)
PartIf(label, value) ==
  IF value # << >> THEN <<[label |-> label, value |-> value]>> ELSE << >>

\* lines 71-79: `Name: ${firstName} ${lastName}`.trim() keeps the label and
\* loses the whitespace at the end
NamePart(fullName, firstName, lastName) ==
  IF fullName # << >> THEN <<[label |-> NameLabel, value |-> fullName]>>
  ELSE IF firstName # << >> \/ lastName # << >>
    THEN <<[label |-> NameLabel,
            value |-> SliceFrom(Trim(<<"N","a","m","e",":"," ">> \o firstName
                                       \o <<" ">> \o lastName), 7)]>>
  ELSE << >>

\* line 94: value && value.trim() && !shownKeys.has(key)
\*          && !shownKeys.has(key.toLowerCase())
IsOtherField(entry) ==
  /\ Len(Trim(entry.value)) > 0
  /\ entry.key \notin shownKeys
  /\ toLowerCase(entry.key) \notin shownKeys

\* lines 93-97
OtherParts(lead) ==
  [j \in 1..Len(SelectSeq(lead, IsOtherField)) |->
     [label |-> SelectSeq(lead, IsOtherField)[j].key,
      value |-> SelectSeq(lead, IsOtherField)[j].value]]

\* lines 60-97: parts
LeadParts(lead) ==
  PartIf(RoleLabel, getFieldValue(lead, TitleFields))
    \o PartIf(CompanyLabel, getFieldValue(lead, CompanyFields))
    \o PartIf(IndustryLabel, getFieldValue(lead, IndustryFields))
    \o PartIf(CompanySizeLabel, getFieldValue(lead, EmployeeRangeFields))
    \o NamePart(getFieldValue(lead, FullNameFields),
                getFieldValue(lead, FirstNameFields),
                getFieldValue(lead, LastNameFields))
    \o PartIf(DomainLabel, getFieldValue(lead, DomainFields))
    \o OtherParts(lead)

\* parts.join('. ') from part i on
RECURSIVE JoinParts(_, _)
JoinParts(parts, i) ==
  IF i > Len(parts) THEN << >>
  ELSE parts[i].label \o <<":"," ">> \o parts[i].value
         \o (IF i < Len(parts) THEN <<"."," ">> ELSE << >>)
         \o JoinParts(parts, i + 1)

\* line 99
LeadTextOf(parts) ==
  IF Len(parts) > 0 THEN <<"L","e","a","d","."," ">> \o JoinParts(parts, 1)
  ELSE <<"L","e","a","d",".">>

leadToText(lead) == LeadTextOf(LeadParts(lead))

(***************************************************************************)
(* The callers of generateEmbeddingBatch: the optimizer route              *)
(* (src/unnamed/part_000), the ingestion route (src/unnamed/part_006) and  *)
(* the scoring engine (src/lib/ranking.ts).  Text k is identified by k; a  *)
(* gateway call is the range of texts it was given; fault.at holds the     *)
(* numbers of the gateway calls that throw, fault.message what the         *)
(* provider layer threw.                                                   *)
(***************************************************************************)

EmbeddingCallers == {"optimize", "ingest", "rank"}

CallerEmbeds(caller, n, fault) ==
  IF caller = "optimize" THEN OptimizeEmbedLeads(n, fault)
  ELSE IF caller = "ingest" THEN IngestEmbedRows(n, fault)
  ELSE RankEmbedLeads(n, fault)

\* most gateway calls of one caller that are made to throw
MaxFaults == 3

LeadTextCounts == {1, 2, EMBED_CHUNK_SIZE + 1, INGEST_EMBED_BATCH_SIZE + 1}

EmbedFaults ==
  [at : SUBSET (1..MaxFaults), message : ProviderMessages, short : {{}}]

\* the lead embedding step of one caller on n texts
CallEmbedLeads(caller, n, fault) ==
  /\ CallIdle
  /\ call' = [fn |-> "embedLeads", caller |-> caller, texts |-> n,
               fault |-> fault]
  /\ ret' = CallerEmbeds(caller, n, fault)
  /\ UNCHANGED <<optVars, gwVars, migVars>>

(***************************************************************************)
(* Direct calls of buildRankingFeedback                                    *)
(***************************************************************************)
\* largest evaluation set handed to a direct buildRankingFeedback call
MaxFeedbackLeads == 10

\* an evaluation set whose first row has neither Full Name nor Company
BlankEvalLeadsOf(n) ==
  [i \in 1..n |->
     [lead |-> [FullName |-> IF i = 1 THEN "" ELSE LeadNames[i],
                Company |-> IF i = 1 THEN "" ELSE "Acme"],
      goldRank |-> i]]

\* rank arrays over 1..n: the identity shifted by s places, the reversal,
\* two neighbours exchanged, and two neighbours sharing the later rank (what
\* the evaluation produces for two leads with one key)
RotatedRanks(n, s) == [i \in 1..n |-> ((i + s - 1) % n) + 1]
ReversedRanks(n) == [i \in 1..n |-> n + 1 - i]
SwappedRanks(n, j) ==
  [i \in 1..n |-> IF i = j THEN j + 1 ELSE IF i = j + 1 THEN j ELSE i]
TiedRanks(n, j) == [i \in 1..n |-> IF i = j THEN j + 1 ELSE i]

ProducedRankArrays(n) ==
  {RotatedRanks(n, s) : s \in 0..(n - 1)} \cup {ReversedRanks(n)}
    \cup {SwappedRanks(n, j) : j \in 1..(n - 1)}
    \cup {TiedRanks(n, j) : j \in 1..(n - 1)}

GoldRankArrays(n) == {RotatedRanks(n, 0), ReversedRanks(n), RotatedRanks(n, 1)}

\* buildRankingFeedback(evalLeads, ourRanks, goldRanks)
CallFeedback(leads, ourRanks, goldRanks) ==
  /\ CallIdle
  /\ call' = [fn |-> "buildRankingFeedback", evalLeads |-> leads,
               ourRanks |-> ourRanks, goldRanks |-> goldRanks]
  /\ ret' = [ok |-> TRUE, error |-> NoText,
              feedback |-> buildRankingFeedback(leads, ourRanks, goldRanks)]
  /\ UNCHANGED <<optVars, gwVars, migVars>>

(***************************************************************************)
(* Direct calls of leadToText: leads of up to MaxFields columns taken from *)
(* LeadKeys, in that order; the value of the k-th key is blank or the text *)
(* 'v' followed by the digit k - 1, so that no two fields hold one value.  *)
(***************************************************************************)
MaxFields == 3

LeadKeys ==
  <<<<"N","o","t","e","s">>,
    <<"C","o","m","p","a","n","y">>,
    <<"T","I","T","L","E">>,
    <<"l","e","a","d","_","j","o","b","_","t","i","t","l","e">>,
    <<"f","u","l","l"," ","n","a","m","e">>,
    <<"F","u","l","l"," ","N","a","m","e">>,
    <<"l","e","a","d","_","f","i","r","s","t","_","n","a","m","e">>,
    <<"l","e","a","d","_","l","a","s","t","_","n","a","m","e">>,
    <<"E","M","P","L","O","Y","E","E","_","R","A","N","G","E">>,
    <<"R","a","n","k">>>>

FieldDigits == <<"0","1","2","3","4","5","6","7","8","9">>

FieldValue(k, blank) == IF blank THEN <<" ">> ELSE <<"v", FieldDigits[k]>>

\* the entries of the lead holding the columns of the set cols, those of
\* blanks with a blank value
RECURSIVE LeadEntries(_, _, _)
LeadEntries(cols, blanks, k) ==
  IF k > Len(LeadKeys) THEN << >>
  ELSE (IF k \in cols
          THEN <<[key |-> LeadKeys[k], value |-> FieldValue(k, k \in blanks)]>>
          ELSE << >>)
       \o LeadEntries(cols, blanks, k + 1)

LeadColumnSets ==
  {cols \in SUBSET (1..Len(LeadKeys)) : Cardinality(cols) <= MaxFields}

\* leadToText(lead)
CallLeadToText(lead) ==
  /\ CallIdle
  /\ call' = [fn |-> "leadToText", lead |-> lead]
  /\ ret' = [ok |-> TRUE, error |-> NoText, parts |-> LeadParts(lead),
              text |-> leadToText(lead)]
  /\ UNCHANGED <<optVars, gwVars, migVars>>

NextCalls ==
  \/ CallIdle /\ \E leads \in LeadLists, characteristics \in PersonaTexts,
        envMax \in EnvMaxLeads :
       \E options \in RankOptions(leads) :
         CallRank(leads, characteristics, options, envMax, NoFail)
  \/ CallIdle /\ \E leads \in GridLeads \cup BoundaryLeads,
        characteristics \in PersonaTexts :
       CallRank(leads, characteristics, NoOptions, NoNumber, NoFail)
  \/ CallIdle /\ \E leads \in ScenarioLeads :
       CallRank(leads, ReplyGood, NoOptions, NoNumber, NoFail)
  \/ CallIdle /\ \E leads \in {<< >>, LongLeads},
        characteristics \in PersonaTexts,
        fail \in FailsAt(0..4, EmbedCauses),
        topN \in {NoNumber, SomeNumber(TOP_N + 1)} :
       CallRank(leads, characteristics,
                [NoOptions EXCEPT !.topN = topN], NoNumber, fail)
  \/ CallIdle /\ \E characteristics \in ParserTexts : CallParse(characteristics)
  \/ CallIdle /\ \E ourRanks \in RankArrays, goldRanks \in RankArrays :
       CallSpearman(ourRanks, goldRanks)
  \/ CallIdle /\ \E characteristics \in PersonaTexts, leads \in EvalSetsForCalls,
        fail \in FailsAt(0..3, EmbedCauses) :
       \E present \in EmbPresentInputs(Len(leads)),
          sims \in SimInputs(Len(leads)) :
         CallEvaluate(characteristics, leads, present, sims, fail)
  \/ CallIdle /\ \E caller \in EmbeddingCallers, n \in LeadTextCounts,
        fault \in EmbedFaults :
       CallEmbedLeads(caller, n, fault)
  \/ CallIdle /\ \E n \in 0..MaxFeedbackLeads :
       \E leads \in {EvalLeadsOf(n), BlankEvalLeadsOf(n)},
          ourRanks \in ProducedRankArrays(n), goldRanks \in GoldRankArrays(n) :
         CallFeedback(leads, ourRanks, goldRanks)
  \/ CallIdle /\ \E cols \in LeadColumnSets :
       \E blanks \in SUBSET cols :
         CallLeadToText(LeadEntries(cols, blanks, 1))

SpecCalls == Init /\ [][NextCalls]_vars

(***************************************************************************)
(* The embedding gateway (src/lib/embeddings.ts): one call of              *)
(* generateEmbedding or generateEmbeddingBatch, split at its provider      *)
(* requests and retry waits.  Input text k is identified by k; a vector is *)
(* the text it was computed for and whether it is a non-empty array of     *)
(* numbers.                                                                *)
(***************************************************************************)
HF_EMBED_BATCH_SIZE == 32
GEMINI_EMBED_BATCH_SIZE == 50
MAX_EMBED_RETRIES == 5

\* most texts handed to generateEmbeddingBatch
MaxTexts == 70

Providers == {"gemini", "huggingface", "openai"}

BatchSizes ==
  {0, 1, 2, HF_EMBED_BATCH_SIZE, HF_EMBED_BATCH_SIZE + 1,
   GEMINI_EMBED_BATCH_SIZE, GEMINI_EMBED_BATCH_SIZE + 1, MaxTexts}

\* the call enters generateEmbedding (one text) or generateEmbeddingBatch;
\* texts.length === 0 returns [] at once (line 396); without the key of the
\* provider getGemini, getHuggingFaceToken or getOpenAI throws (lines 12-43)
\* before a request is sent, and the catch block throws the error on
GwCall(op, provider, n, apiKey) ==
  /\ gwPc = "idle"
  /\ op = "embed" => n = 1
  /\ gwOp' = op
  /\ gwProvider' = provider
  /\ gwTexts' = n
  /\ gwPc' = IF n = 0 THEN "done"
             ELSE IF apiKey = "unset" THEN "failed"
             ELSE "request"
  /\ gwError' = IF n > 0 /\ apiKey = "unset" THEN "generic" ELSE gwError
  /\ UNCHANGED <<gwChunkStart, gwAttempt, gwResults, gwRequests>>
  /\ UNCHANGED <<optVars, callVars, migVars>>

\* texts.slice(i, i + size): the OpenAI path sends every text in one request
ChunkSize ==
  IF gwProvider = "huggingface" THEN HF_EMBED_BATCH_SIZE
  ELSE IF gwProvider = "gemini" THEN GEMINI_EMBED_BATCH_SIZE
  ELSE gwTexts

\* number of texts of the request in flight
Requested ==
  IF gwOp = "embed" THEN 1
  ELSE IF gwTexts - gwChunkStart < ChunkSize THEN gwTexts - gwChunkStart
  ELSE ChunkSize

\* A value of a provider answer: null or undefined, a boolean, the number
\* 0 or another number, the empty or another string, an object without
\* length, or an array of values.
JsValue(kind, items) == [kind |-> kind, items |-> items]
JsNull == JsValue("null", << >>)
JsFalse == JsValue("false", << >>)
JsTrue == JsValue("true", << >>)
JsZero == JsValue("zero", << >>)
JsNumber == JsValue("number", << >>)
JsEmptyString == JsValue("emptyString", << >>)
JsString == JsValue("string", << >>)
JsObject == JsValue("object", << >>)
JsArray(items) == JsValue("array", items)

\* Array.isArray(value), typeof value === 'number', !!value
IsArray(value) == value.kind = "array"
IsNumber(value) == value.kind \in {"zero", "number"}
Truthy(value) == value.kind \notin {"null", "false", "zero", "emptyString"}

\* value.length === 0
HasLengthZero(value) ==
  \/ value.kind = "emptyString"
  \/ IsArray(value) /\ Len(value.items) = 0

\* !!value?.length
HasLength(value) ==
  \/ value.kind = "string"
  \/ IsArray(value) /\ Len(value.items) > 0

\* array[k - 1], undefined past the end
ItemAt(array, k) == IF k <= Len(array.items) THEN array.items[k] ELSE JsNull

\* a ?? b
Coalesce(a, b) == IF a.kind = "null" THEN b ELSE a

\* a non-empty array that holds numbers only
IsNumericVector(value) ==
  /\ IsArray(value)
  /\ Len(value.items) > 0
  /\ \A k \in 1..Len(value.items) : IsNumber(value.items[k])

\* lines 174-180: the first array at any depth that starts with a number
RECURSIVE extractEmbedding(_)
extractEmbedding(value) ==
  IF IsArray(value) /\ Len(value.items) > 0
    THEN IF IsNumber(value.items[1]) THEN value
         ELSE extractEmbedding(value.items[1])
    ELSE JsNull

Thrown(error) == [ok |-> FALSE, error |-> error, value |-> JsNull]
Given(value) == [ok |-> TRUE, error |-> "none", value |-> value]

\* lines 186-188 for an array out
HfEmbeddingOf(emb) == IF HasLength(emb) THEN Given(emb) ELSE Thrown("format")

\* lines 183-189
normalizeHfEmbedding(out) ==
  IF ~Truthy(out) \/ ~IsArray(out) THEN Thrown("format")
  ELSE HfEmbeddingOf(Coalesce(extractEmbedding(out),
                              extractEmbedding(ItemAt(out, 1))))

\* lines 261-265: response.embeddings?.[0]?.values and its test; embeddings
\* is the list of the values fields of response.embeddings
geminiValues(embeddings) ==
  IF IsArray(embeddings) THEN ItemAt(embeddings, 1) ELSE JsNull
generateEmbeddingGemini(embeddings) ==
  IF ~Truthy(geminiValues(embeddings)) \/ HasLengthZero(geminiValues(embeddings))
    THEN Thrown("format")
    ELSE Given(geminiValues(embeddings))

\* line 170: response.data[0].embedding; data is the list of the embedding
\* fields of response.data.  The first character of a non-empty string has
\* no field embedding (undefined); reading a field of undefined or of null
\* throws
generateEmbeddingOpenAI(data) ==
  IF data.kind = "string" THEN Given(JsNull)
  ELSE IF ~IsArray(data) \/ Len(data.items) = 0 THEN Thrown("generic")
  ELSE Given(data.items[1])

\* lines 198-200: the embedding extracted from an item, or []
HfBatchItem(item) ==
  IF HasLength(extractEmbedding(item)) THEN extractEmbedding(item)
  ELSE JsArray(<< >>)

\* lines 192-206 without the test of the length
normalizeHfEmbeddingBatch(out) ==
  IF ~IsArray(out) THEN Thrown("format")
  ELSE Given(JsArray([k \in 1..Len(out.items) |-> HfBatchItem(out.items[k])]))

\* line 327: (response.embeddings ?? []).map((e) => e.values ?? [])
geminiBatchEmbeddings(embeddings) ==
  IF embeddings.kind = "null" THEN Given(JsArray(<< >>))
  ELSE IF ~IsArray(embeddings) THEN Thrown("generic")
  ELSE Given(JsArray([k \in 1..Len(embeddings.items) |->
                        Coalesce(embeddings.items[k], JsArray(<< >>))]))

\* line 355: response.data.map((d) => d.embedding)
generateEmbeddingBatchOpenAI(data) ==
  IF ~IsArray(data) THEN Thrown("generic") ELSE Given(data)

\* an array of two numbers
NumberVector == JsArray(<<JsNumber, JsNumber>>)

\* the first item of a provider answer: an array of numbers; an array that
\* starts with a number and holds something else; an array of strings; an
\* empty array; an array that holds an array of numbers; and values that
\* are no array
AnswerItems ==
  { NumberVector, JsArray(<<JsNumber, JsNull>>), JsArray(<<JsString>>),
    JsArray(<< >>), JsArray(<<NumberVector>>),
    JsNull, JsFalse, JsTrue, JsZero, JsNumber, JsEmptyString, JsString,
    JsObject }

\* the answer that holds count items, the first of them item, the others
\* arrays of numbers
AnswerOf(count, item) ==
  JsArray([k \in 1..count |-> IF k = 1 THEN item ELSE NumberVector])

\* what a provider answers to the request in flight: the JSON value of the
\* Hugging Face response, the values of response.embeddings (Gemini), the
\* embedding fields of response.data (OpenAI).  It holds as many items as
\* texts were sent, one less or one more, or it is no array (null, an
\* object, a string).
ProviderAnswers ==
  {JsNull, JsObject, JsString}
    \cup {AnswerOf(Requested + d, item) : d \in {-1, 0, 1}, item \in AnswerItems}

\* the vectors handed to the caller for the values of an answer: item k
\* stands for text k of the request
ResponseVectors(values) ==
  [k \in 1..Len(values) |->
     [text |-> IF k <= Requested THEN gwChunkStart + k ELSE 0,
      numeric |-> IsNumericVector(values[k])]]

GwFail(error) ==
  /\ gwPc' = "failed"
  /\ gwError' = error
  /\ UNCHANGED <<gwChunkStart, gwAttempt, gwResults>>

GwReturn(vectors) ==
  /\ gwPc' = "done"
  /\ gwResults' = vectors
  /\ UNCHANGED <<gwChunkStart, gwAttempt, gwError>>

\* the value a provider function returned, or the error it threw
GwSettle(outcome) ==
  IF outcome.ok THEN GwReturn(ResponseVectors(<<outcome.value>>))
  ELSE GwFail(outcome.error)

\* generateEmbedding: what each provider function makes of the answer
EmbedResponse(answer) ==
  IF gwProvider = "openai" THEN GwSettle(generateEmbeddingOpenAI(answer))
  ELSE IF gwProvider = "huggingface" THEN GwSettle(normalizeHfEmbedding(answer))
  ELSE GwSettle(generateEmbeddingGemini(answer))

\* results.push(...batch) and the step of the chunk loop: with more texts
\* left the Hugging Face loop sends the next request, the Gemini loop
\* awaits its pause first (lines 408-410)
GwNextChunk(vectors) ==
  /\ gwResults' = gwResults \o vectors
  /\ gwChunkStart' = gwChunkStart + ChunkSize
  /\ gwAttempt' = 0
  /\ gwPc' = IF gwChunkStart + ChunkSize >= gwTexts THEN "done"
             ELSE IF gwProvider = "gemini" THEN "pause"
             ELSE "request"
  /\ gwError' = "none"

\* lines 202-204, 328-330: the number of vectors is compared with the
\* number of texts sent
BatchChecked(outcome) ==
  IF ~outcome.ok THEN GwFail(outcome.error)
  ELSE IF Len(outcome.value.items) # Requested THEN GwFail("count")
  ELSE GwNextChunk(ResponseVectors(outcome.value.items))

\* the OpenAI path returns what it mapped
BatchUnchecked(outcome) ==
  IF ~outcome.ok THEN GwFail(outcome.error)
  ELSE GwReturn(ResponseVectors(outcome.value.items))

\* generateEmbeddingBatch: what each provider function makes of the answer
BatchResponse(answer) ==
  IF gwProvider = "openai" THEN BatchUnchecked(generateEmbeddingBatchOpenAI(answer))
  ELSE IF gwProvider = "huggingface"
    THEN BatchChecked(normalizeHfEmbeddingBatch(answer))
  ELSE BatchChecked(geminiBatchEmbeddings(answer))

\* the provider answers the request in flight
GwProviderReturns(answer) ==
  /\ gwPc = "request"
  /\ gwRequests' = gwRequests + 1
  /\ IF gwOp = "embed" THEN EmbedResponse(answer)
                       ELSE BatchResponse(answer)
  /\ UNCHANGED <<gwOp, gwProvider, gwTexts>>
  /\ UNCHANGED <<optVars, callVars, migVars>>

\* the catch of the retry loops: attempt < MAX_EMBED_RETRIES && isRateLimitError(err)
RetriesRateLimit == gwProvider = "gemini" /\ gwAttempt < MAX_EMBED_RETRIES

\* the provider answers the request in flight with a rate-limit error (429)
GwProviderRateLimited ==
  /\ gwPc = "request"
  /\ gwRequests' = gwRequests + 1
  /\ IF RetriesRateLimit
       THEN /\ gwPc' = "wait"
            /\ gwError' = "rateLimit"
            /\ UNCHANGED <<gwChunkStart, gwAttempt, gwResults>>
       ELSE GwFail("rateLimit")
  /\ UNCHANGED <<gwOp, gwProvider, gwTexts>>
  /\ UNCHANGED <<optVars, callVars, migVars>>

\* the wait before the retry is over: continue, attempt++
GwRetry ==
  /\ gwPc = "wait"
  /\ gwAttempt' = gwAttempt + 1
  /\ gwPc' = "request"
  /\ UNCHANGED <<gwOp, gwProvider, gwTexts, gwChunkStart, gwResults,
                 gwRequests, gwError>>
  /\ UNCHANGED <<optVars, callVars, migVars>>

\* the pause between two chunks is over (line 409): the loop goes on and
\* the request for the next chunk is sent
GwPauseOver ==
  /\ gwPc = "pause"
  /\ gwPc' = "request"
  /\ UNCHANGED <<gwOp, gwProvider, gwTexts, gwChunkStart, gwAttempt, gwResults,
                 gwRequests, gwError>>
  /\ UNCHANGED <<optVars, callVars, migVars>>

\* the request in flight fails with an error that is no rate-limit signal
GwProviderFails(kind) ==
  /\ gwPc = "request"
  /\ gwRequests' = gwRequests + 1
  /\ GwFail(kind)
  /\ UNCHANGED <<gwOp, gwProvider, gwTexts>>
  /\ UNCHANGED <<optVars, callVars, migVars>>

NextGateway ==
  \/ \E provider \in Providers, n \in BatchSizes, apiKey \in {"set", "unset"} :
       GwCall("embedBatch", provider, n, apiKey)
  \/ \E provider \in Providers, apiKey \in {"set", "unset"} :
       GwCall("embed", provider, 1, apiKey)
  \/ \E answer \in ProviderAnswers : GwProviderReturns(answer)
  \/ GwProviderRateLimited
  \/ GwRetry
  \/ GwPauseOver
  \/ \E kind \in {"generic", "timeout"} : GwProviderFails(kind)

SpecGateway == Init /\ [][NextGateway]_vars

(***************************************************************************)
(* ensureLeadsTable (src/lib/db-migrate.ts): the requests of POST          *)
(* /api/rank/db in one process call it as their first statement; a request *)
(* gives up control at every await, where the steps of other requests may  *)
(* run.                                                                    *)
(***************************************************************************)
NUM_MIGRATION_STATEMENTS == 7
MAX_TRIES == 2

\* lines 42-49: the environment is read, then the flag; the call goes on to
\* await import('pg') with ensured false
MigCall(r, url) ==
  /\ migPc[r] = "idle"
  /\ databaseUrl \in {"unread", url}
  /\ databaseUrl' = url
  /\ IF url = "unset" \/ ensured
       THEN /\ migPc' = [migPc EXCEPT ![r] = "returned"]
            /\ UNCHANGED migAttempt
       ELSE /\ migPc' = [migPc EXCEPT ![r] = "import"]
            /\ migAttempt' = [migAttempt EXCEPT ![r] = 1]
  /\ UNCHANGED <<ensured, migStatement, migCompleted, migError, dbVars>>
  /\ UNCHANGED <<optVars, callVars, gwVars>>

\* the import resolved: lines 50-54, up to await client.connect()
MigImported(r) ==
  /\ migPc[r] = "import"
  /\ migPc' = [migPc EXCEPT ![r] = "connect"]
  /\ UNCHANGED <<databaseUrl, ensured, migStatement, migAttempt, migCompleted,
                 migError, dbVars>>
  /\ UNCHANGED <<optVars, callVars, gwVars>>

\* the connection is open: the first statement is sent (line 56)
MigConnected(r) ==
  /\ migPc[r] = "connect"
  /\ migPc' = [migPc EXCEPT ![r] = "query"]
  /\ migStatement' = [migStatement EXCEPT ![r] = 1]
  /\ UNCHANGED <<databaseUrl, ensured, migAttempt, migCompleted, migError,
                 dbVars>>
  /\ UNCHANGED <<optVars, callVars, gwVars>>

\* the statement awaited was executed: the next one is sent, or after the
\* last one ensured = true; return enters the finally block, which awaits
\* client.end() (lines 55-59, 73-75)
MigQueryDone(r) ==
  /\ migPc[r] = "query"
  /\ IF migStatement[r] < NUM_MIGRATION_STATEMENTS
       THEN /\ migStatement' = [migStatement EXCEPT ![r] = migStatement[r] + 1]
            /\ UNCHANGED <<ensured, migPc, migCompleted>>
       ELSE /\ ensured' = TRUE
            /\ migCompleted' = migCompleted + 1
            /\ migPc' = [migPc EXCEPT ![r] = "endReturn"]
            /\ UNCHANGED migStatement
  /\ UNCHANGED <<databaseUrl, migAttempt, migError, dbVars>>
  /\ UNCHANGED <<optVars, callVars, gwVars>>

\* errors of client.connect() and client.query(): the connection is
\* reset, the connection timeout of pg passes, the password is refused
MigErrors ==
  { ErrorWith(<<"r","e","a","d"," ","E","C","O","N","N","R","E","S","E","T">>,
              "ECONNRESET", 0, << >>),
    NewError(<<"t","i","m","e","o","u","t"," ","e","x","p","i","r","e","d">>),
    NewError(
      <<"p","a","s","s","w","o","r","d"," ","a","u","t","h","e","n","t","i",
        "c","a","t","i","o","n"," ","f","a","i","l","e","d">>) }

\* lines 61-67
MigRetryable(err) ==
  \/ err.code \in {"ECONNRESET", "ETIMEDOUT", "ECONNREFUSED"}
  \/ TestIgnoreCase(err.message,
                    <<"t","i","m","e","o","u","t"," ","e","x","p","i","r","e",
                      "d">>)

\* connect or a statement throws err: lines 60-72; throw err enters the
\* finally block
MigFails(r, err) ==
  /\ migPc[r] \in {"connect", "query"}
  /\ IF MigRetryable(err) /\ migAttempt[r] < MAX_TRIES
       THEN /\ migPc' = [migPc EXCEPT ![r] = "wait"]
            /\ UNCHANGED migError
       ELSE /\ migPc' = [migPc EXCEPT ![r] = "endThrow"]
            /\ migError' = [migError EXCEPT ![r] = err]
  /\ UNCHANGED <<databaseUrl, ensured, migStatement, migAttempt, migCompleted,
                 dbVars>>
  /\ UNCHANGED <<optVars, callVars, gwVars>>

\* the pause of line 69 is over: continue enters the finally block
MigRetry(r) ==
  /\ migPc[r] = "wait"
  /\ migPc' = [migPc EXCEPT ![r] = "endRetry"]
  /\ UNCHANGED <<databaseUrl, ensured, migStatement, migAttempt, migCompleted,
                 migError, dbVars>>
  /\ UNCHANGED <<optVars, callVars, gwVars>>

\* client.end() of the finally block settled (lines 73-75): the call
\* returns, the error is thrown to the caller, or attempt++ and a new
\* client connects; a call that is over has no loop variables
MigClientEnded(r) ==
  /\ migPc[r] \in {"endReturn", "endRetry", "endThrow"}
  /\ migPc' = [migPc EXCEPT ![r] =
                 IF migPc[r] = "endReturn" THEN "returned"
                 ELSE IF migPc[r] = "endThrow" THEN "failed"
                 ELSE "connect"]
  /\ migAttempt' = [migAttempt EXCEPT ![r] =
                      IF migPc[r] = "endRetry" THEN migAttempt[r] + 1 ELSE 0]
  /\ migStatement' = [migStatement EXCEPT ![r] = 0]
  /\ UNCHANGED <<databaseUrl, ensured, migCompleted, migError, dbVars>>
  /\ UNCHANGED <<optVars, callVars, gwVars>>

(***************************************************************************)
(* POST /api/rank/db (src/app/api/rank/db/route.ts), from the return of    *)
(* ensureLeadsTable on.  The stored rows, most recent first, are the       *)
(* leads; some of them may hold an empty stored embedding.                 *)
(***************************************************************************)
QUERY_MAX_TRIES == 3

DbError(status, error) == [status |-> status, error |-> error]

\* supabase.ts lines 16-18
SupabaseNotConfigured ==
  <<"S","u","p","a","b","a","s","e"," ","i","s"," ","n","o","t"," ","c","o",
    "n","f","i","g","u","r","e","d","."," ","A","d","d"," ","N","E","X","T",
    "_","P","U","B","L","I","C","_","S","U","P","A","B","A","S","E","_","U",
    "R","L"," ","a","n","d"," ","S","U","P","A","B","A","S","E","_","S","E",
    "R","V","I","C","E","_","R","O","L","E","_","K","E","Y"," ","t","o"," ",
    ".","e","n","v",".","l","o","c","a","l",","," ","t","h","e","n"," ","r",
    "e","s","t","a","r","t"," ","t","h","e"," ","d","e","v"," ","s","e","r",
    "v","e","r"," ","(","C","t","r","l","+","C",","," ","t","h","e","n"," ",
    "n","p","m"," ","r","u","n"," ","d","e","v",")",".">>

\* the catch block, lines 131-150, for a thrown Error
DbCatch(err) ==
  IF Includes(err.message,
              <<"S","u","p","a","b","a","s","e"," ","i","s"," ","n","o","t",
                " ","c","o","n","f","i","g","u","r","e","d">>)
    THEN DbError(503, err.message)
  ELSE IF Includes(err.message,
                   <<"P","l","e","a","s","e"," ","p","r","o","v","i","d","e">>)
    THEN DbError(400, err.message)
  ELSE IF err.code \in {"ECONNRESET", "ETIMEDOUT"}
    THEN DbError(503,
           <<"C","o","n","n","e","c","t","i","o","n"," ","r","e","s","e",
             "t"," ","o","r"," ","t","i","m","e","o","u","t","."," ","T",
             "r","y"," ","a","g","a","i","n"," ","o","r"," ","u","s","e",
             " ","f","e","w","e","r"," ","l","e","a","d","s"," ","(","m",
             "a","x","L","e","a","d","s",")",".">>)
  ELSE DbError(500,
         <<"I","n","t","e","r","n","a","l"," ","s","e","r","v","e","r"," ",
           "e","r","r","o","r",":"," ">>
           \o err.message)

\* the request is answered: the handler is over, and with it the body read
\* and the ranking in flight
DbRespond(r, answer) ==
  /\ dbResponse' = [dbResponse EXCEPT ![r] = answer]
  /\ dbPc' = [dbPc EXCEPT ![r] = "responded"]
  /\ dbBody' = [dbBody EXCEPT ![r] = NoDbBody]
  /\ dbRows' = [dbRows EXCEPT ![r] = << >>]
  /\ dbCall' = [dbCall EXCEPT ![r] = 0]
  /\ dbEmbedAttempt' = [dbEmbedAttempt EXCEPT ![r] = 0]

\* ensureLeadsTable threw: the catch block answers
DbEnsureThrows(r) ==
  /\ migPc[r] = "failed"
  /\ dbPc[r] = "ensure"
  /\ DbRespond(r, DbCatch(migError[r]))
  /\ UNCHANGED ensureVars
  /\ UNCHANGED <<supabaseEnv, apiKeyEnv, aiProvider, maxLeadsEnv, dbAttempt>>
  /\ UNCHANGED <<optVars, callVars, gwVars>>

\* the JSON value of the request body: null, or an object with
\* characteristics (the empty text when it is not a string) and maxLeads
\* (when it is a number); a body that is no JSON is read as {} (line 17)
NullBody == [isNull |-> TRUE, characteristics |-> << >>, maxLeads |-> NoNumber]
ObjectBody(characteristics, maxLeads) ==
  [isNull |-> FALSE, characteristics |-> characteristics,
   maxLeads |-> maxLeads]

DbBodies ==
  { NullBody,
    ObjectBody(<< >>, NoNumber),
    ObjectBody(InitialTarget, SomeNumber(2)),
    ObjectBody(ReplyAvoidOnly, NoNumber) }

\* line 18 for the body null: the TypeError of reading a property of null
NullBodyMessage ==
  <<"C","a","n","n","o","t"," ","r","e","a","d"," ","p","r","o","p",
    "e","r","t","i","e","s"," ","o","f"," ","n","u","l","l"," ","(",
    "r","e","a","d","i","n","g"," ","'","c","h","a","r","a","c","t",
    "e","r","i","s","t","i","c","s","'",")">>

\* ensureLeadsTable returned: line 16 and the call of request.json(), which
\* is awaited (line 17).  supabase is the value of the environment, fixed
\* once read.
DbBegin(r, supabase) ==
  /\ migPc[r] = "returned"
  /\ dbPc[r] = "ensure"
  /\ supabaseEnv \in {"unread", supabase}
  /\ supabaseEnv' = supabase
  /\ IF supabase = "unset"
       THEN DbRespond(r, DbCatch(NewError(SupabaseNotConfigured)))
       ELSE /\ dbPc' = [dbPc EXCEPT ![r] = "json"]
            /\ UNCHANGED <<dbBody, dbRankVars, dbResponse>>
  /\ UNCHANGED <<apiKeyEnv, aiProvider, maxLeadsEnv, dbAttempt>>
  /\ UNCHANGED ensureVars
  /\ UNCHANGED <<optVars, callVars, gwVars>>

\* request.json() settled with body: lines 17-55, up to the first await of
\* the query.  key is the value of the environment, fixed once read.
DbBodyRead(r, key, body) ==
  /\ dbPc[r] = "json"
  /\ IF body.isNull
       THEN /\ DbRespond(r, DbCatch(NewError(NullBodyMessage)))
            /\ UNCHANGED <<apiKeyEnv, dbAttempt>>
     ELSE IF Len(Trim(body.characteristics)) = 0
       THEN /\ DbRespond(r, DbError(400,
                   <<"P","l","e","a","s","e"," ","p","r","o","v","i","d","e"," ","c",
                     "h","a","r","a","c","t","e","r","i","s","t","i","c","s"," ","(",
                     "p","e","r","s","o","n","a"," ","s","p","e","c",")"," ","i","n",
                     " ","t","h","e"," ","r","e","q","u","e","s","t"," ","b","o","d",
                     "y",".">>))
            /\ UNCHANGED <<apiKeyEnv, dbAttempt>>
     ELSE /\ apiKeyEnv \in {"unread", key}
          /\ apiKeyEnv' = key
          /\ IF key = "unset"
               THEN /\ DbRespond(r, DbError(500,
                     <<"A","I"," ","p","r","o","v","i","d","e","r"," ","i","s"," ","n",
                       "o","t"," ","c","o","n","f","i","g","u","r","e","d","."," ","S",
                       "e","t"," ","t","h","e"," ","a","p","p","r","o","p","r","i","a",
                       "t","e"," ","A","P","I"," ","k","e","y"," ","i","n"," ",".","e",
                       "n","v",".","l","o","c","a","l",".">>))
                    /\ UNCHANGED dbAttempt
               ELSE /\ dbPc' = [dbPc EXCEPT ![r] = "query"]
                    /\ dbAttempt' = [dbAttempt EXCEPT ![r] = 1]
                    /\ dbBody' = [dbBody EXCEPT ![r] =
                                    [characteristics |-> body.characteristics,
                                     maxLeads |-> body.maxLeads]]
                    /\ UNCHANGED <<dbRankVars, dbResponse>>
  /\ UNCHANGED <<supabaseEnv, aiProvider, maxLeadsEnv>>
  /\ UNCHANGED ensureVars
  /\ UNCHANGED <<optVars, callVars, gwVars>>

\* errors the awaited query throws: the connection is reset, fetch fails,
\* the host name does not resolve
QueryErrors ==
  { ErrorWith(<<"r","e","a","d"," ","E","C","O","N","N","R","E","S","E","T">>,
              "ECONNRESET", 0, << >>),
    NewError(<<"f","e","t","c","h"," ","f","a","i","l","e","d">>),
    ErrorWith(
      <<"g","e","t","a","d","d","r","i","n","f","o"," ","E","N","O","T","F",
        "O","U","N","D"," ","d","b",".","e","x","a","m","p","l","e",".","c",
        "o">>,
      "ENOTFOUND", 0, << >>) }

\* line 62
QueryRetryable(err) ==
  \/ err.code \in {"ECONNRESET", "ETIMEDOUT", "ECONNREFUSED"}
  \/ TestIgnoreCase(err.message,
                    <<"f","e","t","c","h"," ","f","a","i","l","e","d">>)

\* lines 67-74
QueryThrownResponse(err) ==
  DbError(503,
    IF err.code = "ECONNRESET"
      THEN
      <<"C","o","n","n","e","c","t","i","o","n"," ","w","a","s"," ","r","e",
        "s","e","t"," ","(","t","i","m","e","o","u","t"," ","o","r"," ","n",
        "e","t","w","o","r","k",")","."," ","T","r","y"," ","a","g","a","i",
        "n"," ","o","r"," ","r","e","d","u","c","e"," ","t","h","e"," ","n",
        "u","m","b","e","r"," ","o","f"," ","l","e","a","d","s"," ","(","m",
        "a","x","L","e","a","d","s",")",".">>
      ELSE
      <<"C","a","n","n","o","t"," ","r","e","a","c","h"," ","S","u","p","a",
        "b","a","s","e",":"," ">>
        \o err.message \o
      <<"."," ","C","h","e","c","k"," ","N","E","X","T","_","P","U","B","L",
        "I","C","_","S","U","P","A","B","A","S","E","_","U","R","L"," ","a",
        "n","d"," ","n","e","t","w","o","r","k",".">>)

\* the awaited query throws err: lines 59-75
DbQueryThrows(r, err) ==
  /\ dbPc[r] = "query"
  /\ IF QueryRetryable(err) /\ dbAttempt[r] < QUERY_MAX_TRIES
       THEN /\ dbPc' = [dbPc EXCEPT ![r] = "wait"]
            /\ UNCHANGED <<dbAttempt, dbBody, dbRankVars, dbResponse>>
       ELSE /\ DbRespond(r, QueryThrownResponse(err))
            /\ dbAttempt' = [dbAttempt EXCEPT ![r] = 0]
  /\ UNCHANGED <<supabaseEnv, apiKeyEnv, aiProvider, maxLeadsEnv>>
  /\ UNCHANGED ensureVars
  /\ UNCHANGED <<optVars, callVars, gwVars>>

\* the pause of line 64 is over: continue, attempt++, the query is awaited
\* again
DbQueryRetry(r) ==
  /\ dbPc[r] = "wait"
  /\ dbPc' = [dbPc EXCEPT ![r] = "query"]
  /\ dbAttempt' = [dbAttempt EXCEPT ![r] = dbAttempt[r] + 1]
  /\ UNCHANGED <<supabaseEnv, apiKeyEnv, aiProvider, maxLeadsEnv, dbBody,
                 dbRankVars, dbResponse>>
  /\ UNCHANGED ensureVars
  /\ UNCHANGED <<optVars, callVars, gwVars>>

\* db-migrate.ts lines 24-39, as "the result is not null"
TableIsMissing(message) ==
  \/ Includes(toLowerCase(message),
              <<"c","o","u","l","d"," ","n","o","t"," ","f","i","n","d"," ",
                "t","h","e"," ","t","a","b","l","e">>)
  \/ /\ Includes(toLowerCase(message),
                 <<"r","e","l","a","t","i","o","n">>)
     /\ Includes(toLowerCase(message),
                 <<"d","o","e","s"," ","n","o","t"," ","e","x","i","s","t">>)
  \/ Includes(toLowerCase(message),
              <<"s","c","h","e","m","a"," ","c","a","c","h","e">>)

\* line 84
isNetwork(message) ==
  \/ TestIgnoreCase(message, <<"f","e","t","c","h"," ","f","a","i","l","e","d">>)
  \/ TestIgnoreCase(message, <<"E","C","O","N","N","R","E","F","U","S","E","D">>)
  \/ TestIgnoreCase(message, <<"E","T","I","M","E","D","O","U","T">>)
  \/ TestIgnoreCase(message, <<"E","N","O","T","F","O","U","N","D">>)

\* lines 78-93: the answer to result.error
SupabaseErrorResponse(message) ==
  IF TableIsMissing(message)
    THEN DbError(503,
           <<"T","h","e"," ","'","l","e","a","d","s","'"," ","t","a","b",
             "l","e"," ","d","o","e","s"," ","n","o","t"," ","e","x","i",
             "s","t"," ","i","n"," ","S","u","p","a","b","a","s","e",".",
             " ","A","d","d"," ","D","A","T","A","B","A","S","E","_","U",
             "R","L"," ","i","n"," ",".","e","n","v",".","l","o","c","a",
             "l"," ","(","S","u","p","a","b","a","s","e"," ","→"," ","P",
             "r","o","j","e","c","t"," ","S","e","t","t","i","n","g","s",
             " ","→"," ","D","a","t","a","b","a","s","e"," ","→"," ","C",
             "o","n","n","e","c","t","i","o","n"," ","s","t","r","i","n",
             "g",","," ","S","e","s","s","i","o","n"," ","o","r"," ","D",
             "i","r","e","c","t"," ","m","o","d","e",","," ","n","o","t",
             " ","T","r","a","n","s","a","c","t","i","o","n",")",","," ",
             "r","e","s","t","a","r","t"," ","t","h","e"," ","s","e","r",
             "v","e","r"," ","(","n","p","m"," ","r","u","n"," ","d","e",
             "v",")"," ","a","n","d"," ","t","r","y"," ","a","g","a","i",
             "n"," ","t","o"," ","c","r","e","a","t","e"," ","i","t"," ",
             "a","u","t","o","m","a","t","i","c","a","l","l","y","."," ",
             "O","r"," ","c","r","e","a","t","e"," ","i","t"," ","m","a",
             "n","u","a","l","l","y",":"," ","i","n"," ","S","u","p","a",
             "b","a","s","e"," ","→"," ","S","Q","L"," ","E","d","i","t",
             "o","r"," ","r","u","n"," ","t","h","e"," ","f","i","l","e",
             "s"," ","i","n"," ","s","u","p","a","b","a","s","e","/","m",
             "i","g","r","a","t","i","o","n","s","/",".">>)
  ELSE IF isNetwork(message)
    THEN DbError(503,
           <<"C","a","n","n","o","t"," ","r","e","a","c","h"," ","S","u",
             "p","a","b","a","s","e",":"," ">>
             \o message \o
           <<"."," ","C","h","e","c","k"," ","N","E","X","T","_","P","U",
             "B","L","I","C","_","S","U","P","A","B","A","S","E","_","U",
             "R","L"," ","(","h","t","t","p","s",":","/","/","x","x","x",
             ".","s","u","p","a","b","a","s","e",".","c","o",")"," ","a",
             "n","d"," ","t","h","a","t"," ","t","h","e"," ","s","e","r",
             "v","e","r"," ","c","a","n"," ","a","c","c","e","s","s"," ",
             "t","h","e"," ","i","n","t","e","r","n","e","t",".">>)
  ELSE DbError(500,
         <<"F","a","i","l","e","d"," ","t","o"," ","l","o","a","d"," ","l",
           "e","a","d","s",":"," ">>
           \o message)

\* lines 47-49: query.limit(maxLeads) when body.maxLeads is a number > 0
RowsLoaded(stored, bodyMaxLeads) ==
  IF bodyMaxLeads.given /\ bodyMaxLeads.value > 0
       /\ bodyMaxLeads.value < Len(stored)
    THEN SubSeq(stored, 1, bodyMaxLeads.value)
    ELSE stored

\* lines 112-116
DbRankOptions(leads) ==
  [topN |-> SomeNumber(10), maxLeads |-> NoNumber,
   leadEmbeddings |-> SomeNumber(Len(leads))]

\* lines 118-130 and the catch block for the outcome of the ranking
DbRankResponse(rank) ==
  IF ~rank.ok THEN DbCatch(NewError(rank.error))
  ELSE IF Len(rank.rankedLeads) = 0
    THEN DbError(400,
           <<"N","o"," ","l","e","a","d","s"," ","f","o","u","n","d"," ",
             "m","a","t","c","h","i","n","g"," ","t","h","e"," ","c","h",
             "a","r","a","c","t","e","r","i","s","t","i","c","s">>)
  ELSE [status |-> 200, error |-> NoText,
        rankedLeads |-> Len(rank.rankedLeads),
        totalProcessed |-> rank.totalProcessed,
        embeddingCalls |-> rank.embedCalls,
        leadEmbedCall |-> rank.leadEmbedCall]

\* what the awaited query resolves to: result.error with a message, or the
\* rows stored (none, three of which two are close to Target, one far from
\* Target); empty holds the positions of the rows whose embedding is no
\* non-empty array, noData those of the rows whose data is null
QueryResults ==
  {[error |-> m, stored |-> << >>, empty |-> {}, noData |-> {}] :
     m \in {
       <<"C","o","u","l","d"," ","n","o","t"," ","f","i","n","d"," ","t",
         "h","e"," ","t","a","b","l","e"," ","'","p","u","b","l","i","c",
         ".","l","e","a","d","s","'"," ","i","n"," ","t","h","e"," ","s",
         "c","h","e","m","a"," ","c","a","c","h","e">>,
       <<"T","y","p","e","E","r","r","o","r",":"," ","f","e","t","c","h",
         " ","f","a","i","l","e","d">>,
       <<"p","e","r","m","i","s","s","i","o","n"," ","d","e","n","i","e",
         "d"," ","f","o","r"," ","t","a","b","l","e"," ","l","e","a","d",
         "s">>}}
  \cup
  {res \in
     {[error |-> NullText, stored |-> l, empty |-> e[1], noData |-> e[2]] :
        l \in {<< >>,
               LeadsOfSims(<<[t |-> 80, a |-> 0, p |-> 0],
                             [t |-> 80, a |-> 60, p |-> 0],
                             [t |-> -60, a |-> 0, p |-> 40]>>),
               LeadsOfSims(<<[t |-> -60, a |-> 0, p |-> 40]>>)},
        e \in {<<{}, {}>>, <<{1}, {}>>, <<{3}, {}>>, <<{}, {1}>>,
               <<{2}, {1}>>, <<{1}, {1}>>}} :
     res.empty \cup res.noData \subseteq 1..Len(res.stored)}

\* the positions 1..n that are not dropped, in increasing order
RECURSIVE Kept(_, _)
Kept(n, dropped) ==
  IF n = 0 THEN << >>
  ELSE IF n \in dropped THEN Kept(n - 1, dropped)
  ELSE Append(Kept(n - 1, dropped), n)

\* line 95: the positions of the rows loaded whose data is kept by
\* filter(Boolean)
LeadRows(result, bodyMaxLeads) ==
  Kept(Len(RowsLoaded(result.stored, bodyMaxLeads)), result.noData)

\* line 96: the positions of the rows loaded whose embedding is a non-empty
\* array
EmbeddingRows(result, bodyMaxLeads) ==
  Kept(Len(RowsLoaded(result.stored, bodyMaxLeads)), result.empty)

\* lines 95-96, 112-116: leads[k] and leadEmbeddings[k] are handed to the
\* ranking as lead k and its embedding
DbLeads(result, bodyMaxLeads) ==
  [k \in 1..Len(LeadRows(result, bodyMaxLeads)) |->
     [id |-> result.stored[LeadRows(result, bodyMaxLeads)[k]].id,
      sims |-> result.stored[EmbeddingRows(result, bodyMaxLeads)[k]].sims]]

\* line 97 is passed: there are leads, and as many embeddings
RankReached(result, bodyMaxLeads) ==
  /\ result.error = NullText
  /\ Len(LeadRows(result, bodyMaxLeads)) > 0
  /\ Len(EmbeddingRows(result, bodyMaxLeads))
       = Len(LeadRows(result, bodyMaxLeads))

\* lines 97-107
NoLeadsResponse(leadCount, embeddingCount) ==
  IF embeddingCount # leadCount
    THEN DbError(400,
           <<"N","o"," ","l","e","a","d","s"," ","w","i","t","h"," ","s","t",
             "o","r","e","d"," ","e","m","b","e","d","d","i","n","g","s",".",
             " ","R","e","-","i","n","g","e","s","t"," ","t","h","e"," ","C",
             "S","V"," ","v","i","a"," ","P","O","S","T"," ","/","a","p","i",
             "/","l","e","a","d","s","/","i","n","g","e","s","t"," ","t","o",
             " ","c","o","m","p","u","t","e"," ","a","n","d"," ","s","t","o",
             "r","e"," ","e","m","b","e","d","d","i","n","g","s",".">>)
    ELSE DbError(400,
           <<"N","o"," ","l","e","a","d","s"," ","i","n"," ","t","h","e"," ",
             "d","a","t","a","b","a","s","e","."," ","I","n","g","e","s","t",
             " ","a"," ","C","S","V"," ","f","i","r","s","t"," ","v","i","a",
             " ","P","O","S","T"," ","/","a","p","i","/","l","e","a","d","s",
             "/","i","n","g","e","s","t">>)

\* embeddings.ts lines 299-302
isRateLimitError(message) ==
  \/ Includes(message, <<"4","2","9">>)
  \/ Includes(message,
              <<"R","E","S","O","U","R","C","E","_","E","X","H","A","U","S",
                "T","E","D">>)
  \/ Includes(message, <<"q","u","o","t","a">>)

\* the message of a provider answer with HTTP status 429
RateLimitMessage ==
  <<"4","2","9"," ","T","o","o"," ","M","a","n","y"," ","R","e","q",
    "u","e","s","t","s">>

\* messages of the errors a provider request of the ranking throws
DbProviderMessages(provider) ==
  IF provider = "huggingface" THEN {HfStatusMessage, PleaseProvideMessage}
  ELSE {RateLimitMessage}

\* the ranking of the request, from its call (line 112) to what the route
\* answers; fail names the gateway call that throws
DbRanked(r, envMax, fail) ==
  DbRankResponse(
    rankLeadsAgainstPersona(dbRows[r], dbBody[r].characteristics,
                            DbRankOptions(dbRows[r]), envMax, fail))

\* the ranking is called and calls the gateway
DbCallsGateway(r, result) ==
  /\ RankReached(result, dbBody[r].maxLeads)
  /\ ~ProfileIsEmpty(dbBody[r].characteristics)

\* the awaited query resolves: lines 55-58 and 78-112, and ranking.ts lines
\* 30-35 up to the await of the first generateEmbedding call.  provider is
\* PROVIDER of embeddings.ts, fixed once read.
DbQueryReturns(r, result, provider) ==
  /\ dbPc[r] = "query"
  /\ dbAttempt' = [dbAttempt EXCEPT ![r] = 0]
  /\ IF result.error # NullText
       THEN /\ DbRespond(r, SupabaseErrorResponse(result.error))
            /\ UNCHANGED aiProvider
     ELSE IF ~RankReached(result, dbBody[r].maxLeads)
       THEN /\ DbRespond(r,
                 NoLeadsResponse(Len(LeadRows(result, dbBody[r].maxLeads)),
                                 Len(EmbeddingRows(result, dbBody[r].maxLeads))))
            /\ UNCHANGED aiProvider
     ELSE IF ~DbCallsGateway(r, result)
       THEN /\ DbRespond(r, DbCatch(NewError(EmptyProfileError)))
            /\ UNCHANGED aiProvider
     ELSE /\ aiProvider \in {"unread", provider}
          /\ aiProvider' = provider
          /\ dbPc' = [dbPc EXCEPT ![r] = "embed"]
          /\ dbRows' = [dbRows EXCEPT ![r] = DbLeads(result, dbBody[r].maxLeads)]
          /\ dbCall' = [dbCall EXCEPT ![r] = 1]
          /\ dbEmbedAttempt' = [dbEmbedAttempt EXCEPT ![r] = 0]
          /\ UNCHANGED <<dbBody, dbResponse>>
  /\ UNCHANGED <<supabaseEnv, apiKeyEnv, maxLeadsEnv>>
  /\ UNCHANGED ensureVars
  /\ UNCHANGED <<optVars, callVars, gwVars>>

\* the next gateway call of the ranking is awaited
DbNextCall(r, k) ==
  /\ dbCall' = [dbCall EXCEPT ![r] = k]
  /\ dbEmbedAttempt' = [dbEmbedAttempt EXCEPT ![r] = 0]
  /\ UNCHANGED <<dbPc, dbBody, dbRows, dbResponse>>

\* ranking.ts line 49 for the leads of the request
DbReuses(r, envMax) ==
  ReusesLeadEmbeddings(DbRankOptions(dbRows[r]), dbRows[r],
                       LeadSlice(dbRows[r], DbRankOptions(dbRows[r]), envMax))

\* the last generateEmbedding call of the ranking is awaited: when it
\* returns, line 42 is reached
DbReadsMaxLeads(r) ==
  /\ dbCall[r] # 4
  /\ dbCall[r] = PersonaEmbeddingCalls(dbBody[r].characteristics)

\* the gateway call awaited returns: ranking.ts lines 35-39 up to the next
\* generateEmbedding call; after the last one lines 41-54, where
\* process.env.MAX_LEADS is read (envMax, fixed once read), up to the
\* generateEmbeddingBatch call; without that call, and after it, lines
\* 55-84 and route.ts lines 118-130
DbEmbedReturns(r, envMax) ==
  /\ dbPc[r] = "embed"
  /\ IF dbCall[r] = 4
       THEN /\ DbRespond(r, DbRanked(r, maxLeadsEnv.envMax, NoFail))
            /\ UNCHANGED maxLeadsEnv
     ELSE IF ~DbReadsMaxLeads(r)
       THEN /\ DbNextCall(r, dbCall[r] + 1)
            /\ UNCHANGED maxLeadsEnv
     ELSE /\ ~maxLeadsEnv.read \/ maxLeadsEnv.envMax = envMax
          /\ maxLeadsEnv' = [read |-> TRUE, envMax |-> envMax]
          /\ IF DbReuses(r, envMax)
               THEN DbRespond(r, DbRanked(r, envMax, NoFail))
               ELSE DbNextCall(r, 4)
  /\ UNCHANGED <<supabaseEnv, apiKeyEnv, aiProvider, dbAttempt>>
  /\ UNCHANGED ensureVars
  /\ UNCHANGED <<optVars, callVars, gwVars>>

\* the provider request of the gateway call awaited fails with message:
\* the Gemini functions wait and retry after a rate-limit error
\* (embeddings.ts lines 266-275, 332-341); otherwise the gateway throws,
\* the ranking throws and the catch block answers
DbEmbedThrows(r, message) ==
  /\ dbPc[r] = "embed"
  /\ IF /\ aiProvider = "gemini"
        /\ isRateLimitError(message)
        /\ dbEmbedAttempt[r] < MAX_EMBED_RETRIES
       THEN /\ dbPc' = [dbPc EXCEPT ![r] = "embedWait"]
            /\ UNCHANGED <<dbBody, dbRankVars, dbResponse>>
       ELSE DbRespond(r, DbRanked(r, maxLeadsEnv.envMax,
                                  [at |-> dbCall[r], message |-> message]))
  /\ UNCHANGED <<supabaseEnv, apiKeyEnv, aiProvider, maxLeadsEnv, dbAttempt>>
  /\ UNCHANGED ensureVars
  /\ UNCHANGED <<optVars, callVars, gwVars>>

\* the wait before the retry is over: continue, attempt++, the request is
\* sent again
DbEmbedRetry(r) ==
  /\ dbPc[r] = "embedWait"
  /\ dbPc' = [dbPc EXCEPT ![r] = "embed"]
  /\ dbEmbedAttempt' = [dbEmbedAttempt EXCEPT ![r] = dbEmbedAttempt[r] + 1]
  /\ UNCHANGED <<dbRows, dbCall, dbResponse>>
  /\ UNCHANGED <<supabaseEnv, apiKeyEnv, aiProvider, maxLeadsEnv, dbAttempt,
                 dbBody>>
  /\ UNCHANGED ensureVars
  /\ UNCHANGED <<optVars, callVars, gwVars>>

NextMigrate ==
  \/ \E r \in Requests, url \in {"set", "unset"} : MigCall(r, url)
  \/ \E r \in Requests : MigImported(r)
  \/ \E r \in Requests : MigConnected(r)
  \/ \E r \in Requests : MigQueryDone(r)
  \/ \E r \in Requests, err \in MigErrors : MigFails(r, err)
  \/ \E r \in Requests : MigRetry(r)
  \/ \E r \in Requests : MigClientEnded(r)
  \/ \E r \in Requests : DbEnsureThrows(r)
  \/ \E r \in Requests, supabase \in {"set", "unset"} : DbBegin(r, supabase)
  \/ \E r \in Requests, key \in {"set", "unset"}, body \in DbBodies :
       DbBodyRead(r, key, body)
  \/ \E r \in Requests, err \in QueryErrors : DbQueryThrows(r, err)
  \/ \E r \in Requests : DbQueryRetry(r)
  \/ \E r \in Requests, result \in QueryResults :
       IF dbPc[r] = "query" /\ DbCallsGateway(r, result)
         THEN \E provider \in Providers : DbQueryReturns(r, result, provider)
         ELSE DbQueryReturns(r, result, aiProvider)
  \/ \E r \in Requests :
       IF dbPc[r] = "embed" /\ DbReadsMaxLeads(r)
         THEN \E envMax \in EnvMaxLeads : DbEmbedReturns(r, envMax)
         ELSE DbEmbedReturns(r, maxLeadsEnv.envMax)
  \/ \E r \in Requests, message \in DbProviderMessages(aiProvider) :
       DbEmbedThrows(r, message)
  \/ \E r \in Requests : DbEmbedRetry(r)

SpecMigrate == Init /\ [][NextMigrate]_vars

(***************************************************************************)
(* Vocabulary of the properties                                            *)
(***************************************************************************)
\* first index >= i holding whitespace, Len(s)+1 if none
RECURSIVE NextSpace(_, _)
NextSpace(s, i) ==
  IF i > Len(s) THEN Len(s) + 1
  ELSE IF IsSpace(s[i]) THEN i ELSE NextSpace(s, i + 1)

\* the whitespace-separated words of a text, in order
RECURSIVE WordsFrom(_, _)
WordsFrom(s, i) ==
  LET a == SkipSpaces(s, i)
  IN  IF a > Len(s) THEN << >>
      ELSE <<SubSeq(s, a, NextSpace(s, a) - 1)>> \o WordsFrom(s, NextSpace(s, a))

\* equal up to whitespace: the same words in the same order
SameUpToSpace(a, b) == WordsFrom(a, 1) = WordsFrom(b, 1)

LowerText(s) == [i \in 1..Len(s) |-> ToLower(s[i])]

\* equal up to whitespace and letter case
SameUpToSpaceAndCase(a, b) == SameUpToSpace(LowerText(a), LowerText(b))

\* the text whose evaluation was appended last: the current persona text of
\* the iteration that requested the proposals
LastEvaluated == history[Len(history)].prompt

\* a second proposal request of the iteration is pending or was issued
ReRequested == pc = "propose2" \/ proposeCalls = 2

MaxHistoryScore ==
  CHOOSE m \in {history[i].score : i \in 1..Len(history)} :
    \A i \in 1..Len(history) : history[i].score <= m

EarliestBestIndex ==
  CHOOSE i \in 1..Len(history) :
    /\ history[i].score = MaxHistoryScore
    /\ \A j \in 1..(i - 1) : history[j].score < MaxHistoryScore

(***************************************************************************)
(* Properties                                                              *)
(***************************************************************************)

\* C1: inside a run bestScore never decreases from one step to the next, and
\* when runOptimization returns bestScore is at least the score of the first
\* history entry, the evaluation of the initial persona text.
C1_BestScoreNeverRegresses ==
  [][ /\ pc # "idle" => bestScore' >= bestScore
      /\ pc' = "returned" =>
           /\ Len(history') >= 1
           /\ history'[1].prompt = initialPrompt'
           /\ bestScore' >= history'[1].score ]_vars

\* a run that returned after a later evaluation scored below the initial one
C1_Witness ==
  /\ pc = "returned"
  /\ Len(history) >= 2
  /\ \E i \in 2..Len(history) : history[i].score < history[1].score
  /\ bestScore >= history[1].score

\* C2: a run never fails on the empty-profile error of a proposal: the
\* 'Profile cannot be empty.' failure can only hit the initial persona text,
\* before any evaluation.
C2_MalformedProposalNeverFailsRun ==
  failure.source = "profile" => Len(history) = 0

\* C3: a failing proposal request never ends the run with an error.
C3_ProposeFailureNeverAbortsRun ==
  pc \in {"failed", "responded"} => failure.source # "propose"

\* C4: once an evaluation has succeeded, the request is answered with the
\* best result found so far, also when a later step failed.
C4_PartialResultReturned ==
  (pc = "responded" /\ numEvaluate >= 1) =>
     /\ response.status = 200
     /\ response.result.bestPrompt = bestPrompt
     /\ response.result.bestScore = bestScore
     /\ response.result.history = history

\* C5: after a final proposal that is empty or shorter than 20 characters the
\* next current persona text is the best-known text, and every text in the
\* history is the initial text or has at least 20 characters.
C5_MalformedProposalNeverCurrent ==
  /\ (pc = "loop" /\ iter >= 1 /\ Len(proposed) < 20) => currentPrompt = bestPrompt
  /\ \A i \in 1..Len(history) :
       history[i].prompt = initialPrompt \/ Len(history[i].prompt) >= 20
  /\ pc \in {"loop", "propose", "propose2"} =>
       (currentPrompt = initialPrompt \/ Len(currentPrompt) >= 20)

\* a too-short proposal was rejected in favour of a best-known text that is
\* itself an earlier proposal
C5_Witness ==
  /\ pc = "loop"
  /\ iter >= 2
  /\ Len(proposed) > 0
  /\ Len(proposed) < 20
  /\ bestPrompt # initialPrompt
  /\ currentPrompt = bestPrompt
  /\ currentPrompt # proposed

\* C6: when runOptimization returns, the number of evaluations equals
\* maxIterations and the number of proposal rounds is one less.
C6_LastIterationEvaluatesOnly ==
  pc = "returned" =>
     /\ 2 * numEvaluate = maxIterations2
     /\ numRounds = numEvaluate - 1

\* C7 as stated: the proposal is re-requested exactly when the first
\* proposal equals the current text up to whitespace and letter case.
C7_ReRequestIffSameIgnoringCase ==
  /\ proposeCalls <= 2
  /\ firstProposed # NoText =>
       (ReRequested <=> SameUpToSpaceAndCase(firstProposed, LastEvaluated))

\* C7 amended: the proposal is re-requested exactly when the first proposal
\* has the same whitespace-separated words as the current text (letter case
\* is significant); an iteration issues at most two proposal requests.
C7_ReRequestIffSameUpToSpace ==
  /\ proposeCalls <= 2
  /\ firstProposed # NoText =>
       (ReRequested <=> SameUpToSpace(firstProposed, LastEvaluated))

\* the second request was issued after a first proposal that differs from
\* the current text only in whitespace
C7_Witness ==
  /\ proposeCalls = 2
  /\ firstProposed # NoText
  /\ firstProposed # LastEvaluated
  /\ SameUpToSpace(firstProposed, LastEvaluated)

\* C8: a proposal of 20 characters or more, which the loop takes as the next
\* current text, differs from the text it was proposed for.
C8_AcceptedProposalIsNovel ==
  (pc = "loop" /\ iter >= 1 /\ Len(proposed) >= 20) =>
     /\ currentPrompt = proposed
     /\ ~SameUpToSpace(proposed, LastEvaluated)

\* C9: once an evaluation has succeeded, bestScore is the maximum score of
\* the history and bestPrompt is the text of the earliest entry attaining it.
C9_BestIsEarliestMaximum ==
  Len(history) >= 1 =>
     /\ bestScore = MaxHistoryScore
     /\ bestPrompt = history[EarliestBestIndex].prompt
     /\ bestScore > -2 * SpearmanDen(Len(evalLeads))

\* a returned run in which a later, different text tied with the best score
C9_Witness ==
  /\ pc = "returned"
  /\ \E i, j \in 1..Len(history) :
       /\ i < j
       /\ history[i].score = bestScore
       /\ history[j].score = bestScore
       /\ history[i].prompt # history[j].prompt
       /\ bestPrompt = history[i].prompt

\* C10: every step either leaves the history alone or appends exactly the
\* entry of the evaluation that just returned; the history has one entry per
\* evaluation.
C10_HistoryAppendOnly ==
  [][ /\ Len(history') = numEvaluate'
      /\ \/ numEvaluate' = numEvaluate /\ history' = history
         \/ /\ numEvaluate' = numEvaluate + 1
            /\ history' = Append(history, [prompt |-> currentPrompt,
                                           score |-> lastEval'.score]) ]_vars

\* three evaluations were appended in order
C10_Witness ==
  /\ Len(history) = 3
  /\ numEvaluate = 3
  /\ history[1].prompt = initialPrompt
  /\ history[2].prompt # history[1].prompt
  /\ history[3].prompt = currentPrompt

\* sum of the squared differences of the first k entries of two arrays
RECURSIVE SquaredRankDistance(_, _, _)
SquaredRankDistance(a, b, k) ==
  IF k = 0 THEN 0
  ELSE (a[k] - b[k]) * (a[k] - b[k]) + SquaredRankDistance(a, b, k - 1)

IsPermutation(r) == \A v \in 1..Len(r) : \E i \in 1..Len(r) : r[i] = v

IsReversalOf(a, b) ==
  Len(a) = Len(b) /\ \A i \in 1..Len(a) : a[i] = Len(a) + 1 - b[i]

\* C11: spearmanCorrelation returns 0 when the two arrays differ in length
\* or hold fewer than 2 ranks, and otherwise 1 - 6*sum(d_i^2)/(N*(N^2-1));
\* it returns 1 for a permutation against itself and -1 for a permutation
\* against its full reversal.
C11_SpearmanIsReferenceDefinition ==
  call.fn = "spearmanCorrelation" =>
    LET n == Len(call.ourRanks)
        value == [num |-> ret.score, den |-> ret.den]
    IN  /\ ret.ok
        /\ (n # Len(call.goldRanks) \/ n < 2) => value.num = 0
        /\ (n = Len(call.goldRanks) /\ n >= 2) =>
             /\ value.den > 0
             /\ value.num * (n * (n * n - 1)) =
                  value.den * (n * (n * n - 1)
                     - 6 * SquaredRankDistance(call.ourRanks, call.goldRanks, n))
             /\ (IsPermutation(call.ourRanks) /\ call.ourRanks = call.goldRanks)
                  => value.num = value.den
             /\ (IsPermutation(call.ourRanks)
                   /\ IsReversalOf(call.ourRanks, call.goldRanks))
                  => value.num = -value.den

\* a permutation of 1..3 was compared with its reversal and scored -1
C11_Witness ==
  /\ call.fn = "spearmanCorrelation"
  /\ Len(call.ourRanks) = 3
  /\ IsPermutation(call.ourRanks)
  /\ IsReversalOf(call.ourRanks, call.goldRanks)
  /\ ret.score = -ret.den

\* C12: the rank-correlation score that evaluatePromptOnEvalSet computes from
\* its produced ranks and the gold ranks lies in [-1, 1], for every
\* evaluation set with dense gold ranks 1..N and every persona.
C12_EvaluationScoreInUnitInterval ==
  (call.fn = "evaluatePromptOnEvalSet" /\ ret.ok) =>
    /\ -ret.den <= ret.result.score
    /\ ret.result.score <= ret.den

IsRankCall == call.fn = "rankLeadsAgainstPersona"

\* the leads a ranking worked on: the input cut to the lead limit
ProcessedLeads == SubSeq(call.leads, 1, ret.totalProcessed)

TopNAsked == IF call.options.topN.given THEN call.options.topN.value ELSE 10

\* number of processed leads sorted before lead id: a higher score, or the
\* same score and an earlier input position
NumSortedBefore(id) ==
  Cardinality({j \in 1..ret.totalProcessed :
                 \/ DblLess(ret.scores[id], ret.scores[j])
                 \/ ret.scores[j] = ret.scores[id] /\ j < id})

\* the numbers 0, 1, 0.3 and 0.25
Zero == DblOfInt(0)
Unit == DblOfInt(1)
ThreeTenths == Decimal(3, 10)
Quarter == Decimal(25, 100)

\* C13: for every lead and every combination of similarities in [-1, 1],
\* with Avoid or Prefer present (affine transform, clamped) and with neither
\* present ((simTarget + 1) / 2), the normalized score that
\* rankLeadsAgainstPersona assigns lies in [0, 1].
C13_NormalizedScoreInUnitInterval ==
  (IsRankCall /\ ret.ok) =>
    \A i \in 1..ret.totalProcessed :
      /\ DblLeq(Zero, ret.scores[i]) /\ DblLeq(ret.scores[i], Unit)
      /\ \A k \in 1..Len(ret.rankedLeads) :
           ret.rankedLeads[k].lead = i => ret.rankedLeads[k].score = ret.scores[i]

\* with Avoid and Prefer present the raw score -1.6 was clamped to 0
C13_Witness ==
  /\ IsRankCall /\ ret.ok
  /\ Len(call.leads) = 1
  /\ call.leads[1].sims = [t |-> -100, a |-> 100, p |-> -100]
  /\ call.characteristics = ReplyGood
  /\ ret.scores[1] = Zero

\* C14: the descending-sorted list is cut to topN (default 10) before the
\* entries below the score floor 0.3 are dropped and is never refilled: the
\* result has at most topN entries, each scores at least 0.3, each is among
\* the topN first of the sorted order, and when the topN-th lead scores below
\* 0.3 the result has fewer than topN entries.
C14_TruncateThenFilter ==
  (IsRankCall /\ ret.ok) =>
    /\ Len(ret.rankedLeads) <= TopNAsked
    /\ \A k \in 1..Len(ret.rankedLeads) :
         /\ DblLeq(ThreeTenths, ret.rankedLeads[k].score)
         /\ NumSortedBefore(ret.rankedLeads[k].lead) < TopNAsked
    /\ (\E i \in 1..ret.totalProcessed :
          /\ NumSortedBefore(i) = TopNAsked - 1
          /\ DblLess(ret.scores[i], ThreeTenths))
         => Len(ret.rankedLeads) < TopNAsked

\* twelve leads ranked with the default topN: the 10th of the sorted order
\* scores 0.25, and 9 entries are returned although leads 11 and 12 exist
C14_Witness ==
  /\ IsRankCall /\ ret.ok
  /\ ~call.options.topN.given
  /\ ret.totalProcessed = 12
  /\ ret.scores[10] = Quarter
  /\ NumSortedBefore(10) = 9
  /\ Len(ret.rankedLeads) = 9

\* C15: the entries of the result are in non-increasing score order, leads
\* with equal score keep their input order, and the rank values are exactly
\* 1, 2, ..., K for a result of K entries, also after the score floor.
C15_StableOrderDenseRanks ==
  (IsRankCall /\ ret.ok) =>
    /\ \A k \in 1..Len(ret.rankedLeads) : ret.rankedLeads[k].rank = k
    /\ \A k \in 1..(Len(ret.rankedLeads) - 1) :
         \/ DblLess(ret.rankedLeads[k + 1].score, ret.rankedLeads[k].score)
         \/ /\ ret.rankedLeads[k].score = ret.rankedLeads[k + 1].score
            /\ ret.rankedLeads[k].lead < ret.rankedLeads[k + 1].lead

\* three leads, the first below the floor and the other two tied: the tied
\* leads come out in input order with ranks 1 and 2
C15_Witness ==
  /\ IsRankCall /\ ret.ok
  /\ ret.totalProcessed = 3
  /\ Len(ret.rankedLeads) = 2
  /\ ret.rankedLeads[1].score = ret.rankedLeads[2].score
  /\ ret.rankedLeads[1].lead = 2
  /\ ret.rankedLeads[2].lead = 3
  /\ ret.rankedLeads[2].rank = 2

\* C16: rankLeadsAgainstPersona issues no lead-embedding call exactly when
\* the caller supplied as many lead embeddings as leads, and recomputes
\* them otherwise without raising a count-mismatch error, also under a lead
\* limit (maxLeads or MAX_LEADS) and on the rank-from-database path, which
\* always supplies one stored embedding per lead.
C16_ReusesEmbeddingsMatchingCallerLeads ==
  (IsRankCall /\ ret.ok) =>
    (ret.leadEmbedCall <=>
       ~(call.options.leadEmbeddings.given
          /\ call.options.leadEmbeddings.value = Len(call.leads)))

\* C17: when the parsed Target is empty or whitespace-only,
\* rankLeadsAgainstPersona and evaluatePromptOnEvalSet throw the
\* empty-profile error before any embedding call and return no ranking.
C17_EmptyTargetFailsBeforeEmbedding ==
  (call.fn \in {"rankLeadsAgainstPersona", "evaluatePromptOnEvalSet"}
     /\ Len(Trim(parseProfileForEmbedding(call.characteristics).targetText)) = 0)
    => /\ ~ret.ok
       /\ ret.error = EmptyProfileError
       /\ ret.embedCalls = 0
       /\ DOMAIN ret \cap {"rankedLeads", "result"} = {}
       /\ IsRankCall => ~ret.leadEmbedCall /\ ret.leadTexts = 0

\* a ranking of leads against a text holding only an Avoid section failed
\* with the empty-profile error
C17_Witness ==
  /\ IsRankCall
  /\ call.characteristics = ReplyAvoidOnly
  /\ Len(call.leads) >= 1
  /\ ret.error = EmptyProfileError
  /\ ret.embedCalls = 0

SectionLabels == {TargetLabel, AvoidLabel, PreferLabel}

\* label stands in t at index i as the start of a word, in any letter
\* case, followed by optional whitespace and a colon at index c
LabelWordAt(t, i, label, c) ==
  /\ i = 1 \/ t[i - 1] \notin WordChars
  /\ i + Len(label) <= c
  /\ \A k \in 1..Len(label) : LowerText(<<t[i + k - 1]>>) = <<label[k]>>
  /\ \A k \in (i + Len(label))..(c - 1) : IsSpace(t[k])
  /\ t[c] = ":"

StartsLabel(t, i, label) == \E c \in i..Len(t) : LabelWordAt(t, i, label, c)

StartsAnyLabel(t, i) == \E label \in SectionLabels : StartsLabel(t, i, label)

HasLabel(t, label) == \E i \in 1..Len(t) : StartsLabel(t, i, label)

\* the text between the colon of the first label occurrence and the next
\* recognised label, or the end of the text
SectionContent(t, label) ==
  LET i == CHOOSE i \in 1..Len(t) :
             /\ StartsLabel(t, i, label)
             /\ \A j \in 1..(i - 1) : ~StartsLabel(t, j, label)
      c == CHOOSE c \in i..Len(t) : LabelWordAt(t, i, label, c)
      e == CHOOSE e \in (c + 1)..(Len(t) + 1) :
             /\ e = Len(t) + 1 \/ StartsAnyLabel(t, e)
             /\ \A j \in (c + 1)..(e - 1) : ~StartsAnyLabel(t, j)
  IN  SubSeq(t, c + 1, e - 1)

Verbatim(text) == text

\* the slots the parser is to return for the text t under the clean-up
\* Clean of a slot body; emptyIsFreeForm tells whether the empty text is
\* parsed as free-form text
ExpectedSection(t, label, Clean(_)) ==
  IF HasLabel(t, label) THEN Clean(Trim(SectionContent(t, label))) ELSE << >>

ExpectedSlot(prefix, body, absent) ==
  IF body = << >> THEN absent ELSE prefix \o body

ExpectedProfile(t, Clean(_), emptyIsFreeForm) ==
  IF \E label \in SectionLabels : HasLabel(t, label)
    THEN [targetText |-> ExpectedSlot(TargetPrefix,
                           ExpectedSection(t, TargetLabel, Clean), << >>),
          avoidText |-> ExpectedSlot(AvoidPrefix,
                           ExpectedSection(t, AvoidLabel, Clean), NullText),
          preferText |-> ExpectedSlot(PreferPrefix,
                           ExpectedSection(t, PreferLabel, Clean), NullText)]
  ELSE IF t = << >> /\ ~emptyIsFreeForm
    THEN [targetText |-> << >>, avoidText |-> NullText, preferText |-> NullText]
  ELSE [targetText |-> TargetPrefix \o Clean(t),
        avoidText |-> NullText, preferText |-> NullText]

IsParseCall == call.fn = "parseProfileForEmbedding"

\* C18 as stated: structured mode exactly when the text holds a label
\* Target/Avoid/Prefer (any letter case) followed by a colon; in free-form
\* mode the whole text becomes the Target slot prefixed with
\* 'Target profile: ', Avoid and Prefer absent; in structured mode a
\* section's content runs from its label to the next recognised label or the
\* end of the text; an Avoid or Prefer slot is absent or non-empty.
C18_ParserModesVerbatim ==
  IsParseCall =>
    /\ ret.value = ExpectedProfile(Trim(call.characteristics), Verbatim, TRUE)
    /\ ret.value.avoidText # << >> /\ ret.value.preferText # << >>

\* C18 amended: a label counts when it starts a word and is followed by
\* optional whitespace and a colon; the free-form text and every section
\* body are trimmed and stripped of markdown; the empty text yields an empty
\* Target; an Avoid or Prefer slot is absent or longer than its prefix.
C18_ParserModesCleaned ==
  IsParseCall =>
    /\ ret.value = ExpectedProfile(Trim(call.characteristics), stripMarkdown, FALSE)
    /\ ret.value.avoidText = NullText
         \/ Len(ret.value.avoidText) > Len(AvoidPrefix)
    /\ ret.value.preferText = NullText
         \/ Len(ret.value.preferText) > Len(PreferPrefix)

\* 'reTarget:**x**' was parsed: the label glued to a word is not
\* recognised, so the text is free-form, and its markdown is stripped
C18_Witness ==
  /\ IsParseCall
  /\ call.characteristics =
       <<"r","e","T","a","r","g","e","t",":","*","*","x","*","*">>
  /\ ret.value.targetText =
       TargetPrefix \o <<"r","e","T","a","r","g","e","t",":","x">>
  /\ ret.value.avoidText = NullText
  /\ ret.value.preferText = NullText

\* C19: generateEmbeddingBatch returns exactly one vector per input text, in
\* input order, for every provider and every input length, chunked or not;
\* when a provider returns another number of vectors than requested the
\* call fails instead of returning a list of another length.
C19_BatchReturnsOneVectorPerText ==
  (gwPc = "done" /\ gwOp = "embedBatch") =>
    /\ Len(gwResults) = gwTexts
    /\ \A k \in 1..Len(gwResults) : gwResults[k].text = k

\* C20: on a rate-limit signal the call waits and retries, and fails with
\* the rate-limit error only after MAX_EMBED_RETRIES retries; it waits and
\* retries after no other error; it ends after at most 6 provider attempts.
C20_RateLimitRetriedUpToCeiling ==
  /\ (gwPc = "failed" /\ gwError = "rateLimit") => gwAttempt = MAX_EMBED_RETRIES
  /\ gwPc = "wait" => gwError = "rateLimit"
  /\ gwRequests <= MAX_EMBED_RETRIES + 1

(***************************************************************************)
(* C21                                                                     *)
(***************************************************************************)
IsEmbedLeadsCall == call.fn = "embedLeads"

\* a timeout of the network, as opposed to an answer of the provider
IsNetworkTimeout(message) == message \in {HfTimedOutMessage, EtimedoutMessage}

\* gateway call j of the caller was given several texts and threw a timeout
TimedOutBatch(j) ==
  /\ j \in call.fault.at
  /\ ret.requests[j].size > 1
  /\ IsNetworkTimeout(call.fault.message)

\* C21: for every caller of the embedding gateway, a gateway call given
\* several texts that fails with a network timeout is followed by a call
\* for the first of these texts alone (the batch is re-requested one item at
\* a time before the failure is surfaced), and the vectors a caller ends up
\* with are those of its texts, in input order, one per text.
C21_TimeoutFallsBackPerItem ==
  IsEmbedLeadsCall =>
    /\ ret.ok => ret.vectors = TextIds(1, call.texts)
    /\ \A j \in 1..Len(ret.requests) :
         TimedOutBatch(j) =>
           /\ Len(ret.requests) > j
           /\ ret.requests[j + 1] = [from |-> ret.requests[j].from, size |-> 1]

(***************************************************************************)
(* C22                                                                     *)
(***************************************************************************)
\* C22: a call of generateEmbedding or generateEmbeddingBatch that returns
\* hands the caller only non-empty numeric vectors (a provider response that
\* cannot be normalized to a numeric vector makes the call fail instead).
C22_ReturnsOnlyNumericVectors ==
  gwPc = "done" => \A k \in 1..Len(gwResults) : gwResults[k].numeric

(***************************************************************************)
(* C23                                                                     *)
(***************************************************************************)
\* a ranking of three leads with pairwise distinct similarities against a
\* persona with Target, Avoid and Prefer sections, all three leads processed
IsScenarioCall ==
  /\ IsRankCall /\ ret.ok
  /\ call.characteristics = ReplyGood
  /\ Len(call.leads) = 3
  /\ ret.totalProcessed = 3
  /\ \A i, j \in 1..3 : i # j => call.leads[i].sims # call.leads[j].sims

\* lead x has the highest Target and the lowest Avoid similarity
BestTargetLeastAvoid(x) ==
  \A j \in 1..3 :
    j # x => /\ call.leads[x].sims.t > call.leads[j].sims.t
             /\ call.leads[x].sims.a < call.leads[j].sims.a

RankedFirst(x) ==
  /\ Len(ret.rankedLeads) >= 1
  /\ ret.rankedLeads[1].lead = x
  /\ ret.rankedLeads[1].rank = 1

\* C23 (as stated): in the scenario the lead with both the highest Target
\* similarity and the lowest Avoid similarity is ranked 1, whatever the
\* Prefer similarities and the input order of the leads.
C23_BestTargetLeastAvoidRanksFirst ==
  IsScenarioCall =>
    \A x \in 1..3 : BestTargetLeastAvoid(x) => RankedFirst(x)

\* C23 (amended): in the scenario the lead with both the highest Target
\* similarity and the lowest Avoid similarity is ranked 1, for every input
\* order of the leads, when its Prefer similarity is not below that of
\* another lead, its normalized score is at least 0.3 and no lead earlier
\* in the input has the same normalized score.
C23_DominantLeadRanksFirst ==
  IsScenarioCall =>
    \A x \in 1..3 :
      ( /\ BestTargetLeastAvoid(x)
        /\ \A j \in 1..3 : call.leads[x].sims.p >= call.leads[j].sims.p
        /\ DblLeq(ThreeTenths, ret.scores[x])
        /\ \A j \in 1..(x - 1) : ret.scores[j] # ret.scores[x] )
        => RankedFirst(x)

\* the second lead of the input dominates in all three similarities, scores
\* above every other lead and above the floor and is ranked 1
C23_Witness ==
  /\ IsScenarioCall
  /\ call.leads[1].sims = [t |-> 40, a |-> 10, p |-> 80]
  /\ call.leads[2].sims = [t |-> 50, a |-> 0, p |-> 80]
  /\ call.leads[3].sims = [t |-> -60, a |-> 30, p |-> -40]
  /\ DblLess(ret.scores[1], ret.scores[2])
  /\ DblLess(ret.scores[3], ThreeTenths)
  /\ RankedFirst(2)

(***************************************************************************)
(* C24                                                                     *)
(***************************************************************************)
IsFeedbackCall == call.fn = "buildRankingFeedback"

FeedbackN == Len(call.evalLeads)
FeedbackTopK == IF FeedbackN < 5 THEN FeedbackN ELSE 5

\* leads placed before lead i by ranks: a smaller rank, or the same rank and
\* an earlier position
NumRankedBefore(ranks, i) ==
  Cardinality({j \in 1..Len(ranks) :
                 \/ ranks[j] < ranks[i]
                 \/ ranks[j] = ranks[i] /\ j < i})

GoldTopK == {i \in 1..FeedbackN : NumRankedBefore(call.goldRanks, i) < FeedbackTopK}
ProducedTopK == {i \in 1..FeedbackN : NumRankedBefore(call.ourRanks, i) < FeedbackTopK}

\* gold top-K leads whose produced rank lies outside 1..K
ExpectedTooLow == {i \in GoldTopK : call.ourRanks[i] > FeedbackTopK}
\* produced top-K leads absent from the gold top-K
ExpectedTooHigh == ProducedTopK \ GoldTopK

\* the sentences of the returned text under a heading
SentencesOf(heading) ==
  {j \in 1..Len(ret.feedback) : ret.feedback[j].heading = heading}

\* the text holds a sentence under heading exactly when expected is not
\* empty; the sentence names min(3, |expected|) distinct leads of expected
ReportsExactly(heading, expected) ==
  /\ Cardinality(SentencesOf(heading)) = (IF expected = {} THEN 0 ELSE 1)
  /\ \A j \in SentencesOf(heading) :
       /\ ret.feedback[j].k = FeedbackTopK
       /\ Len(ret.feedback[j].examples) =
            (IF Cardinality(expected) < 3 THEN Cardinality(expected) ELSE 3)
       /\ \A e \in 1..Len(ret.feedback[j].examples) :
            /\ \E i \in expected :
                 ret.feedback[j].examples[e].label =
                   FeedbackLabel(call.evalLeads[i].lead)
            /\ \A f \in 1..Len(ret.feedback[j].examples) :
                 f # e => ret.feedback[j].examples[f].label #
                            ret.feedback[j].examples[e].label

\* C24: with K = min(5, N), buildRankingFeedback reports as ranked too low
\* exactly the gold top-K leads whose produced rank is outside the produced
\* top-K (those not in the produced top-K, when the produced ranks are a
\* permutation), and as leads that should not be there exactly the produced
\* top-K leads absent from the gold top-K; it lists at most 3 examples of
\* each, and returns the empty text exactly when both lists are empty, in
\* particular when the produced ranks equal the gold ranks.
C24_FeedbackReportsTopKDifferences ==
  IsFeedbackCall =>
    /\ ReportsExactly("Gold top-k that we ranked too low", ExpectedTooLow)
    /\ ReportsExactly("Our top-k that should not be there", ExpectedTooHigh)
    /\ IsPermutation(call.ourRanks) => ExpectedTooLow = GoldTopK \ ProducedTopK
    /\ ret.feedback = << >> <=> (ExpectedTooLow = {} /\ ExpectedTooHigh = {})
    /\ call.ourRanks = call.goldRanks => ret.feedback = << >>

\* of 10 leads the gold top-5 were all ranked 6..10: both sentences are
\* present and each is cut to 3 of its 5 leads
C24_Witness ==
  /\ IsFeedbackCall
  /\ FeedbackN = 10
  /\ call.goldRanks = RotatedRanks(10, 0)
  /\ call.ourRanks = RotatedRanks(10, 5)
  /\ Cardinality(ExpectedTooLow) = 5
  /\ Len(ret.feedback) = 2
  /\ Len(ret.feedback[1].examples) = 3
  /\ Len(ret.feedback[2].examples) = 3

(***************************************************************************)
(* C25                                                                     *)
(***************************************************************************)
\* the slots of the persona text that evaluatePromptOnEvalSet embeds
PresentSlots(characteristics) ==
  {"target"}
    \cup (IF parseProfileForEmbedding(characteristics).avoidText # NullText
            THEN {"avoid"} ELSE {})
    \cup (IF parseProfileForEmbedding(characteristics).preferText # NullText
            THEN {"prefer"} ELSE {})

\* C25: every Evaluate of the optimization loop issues one embedding call
\* per present persona slot (Target, and Avoid and Prefer when present: 1 to
\* 3 calls) and none for an evaluation lead, no other step of the run issues
\* an embedding call, and the evalLeads and leadEmbeddings handed to
\* runOptimization are left unchanged by every step of the run.
C25_EvaluateEmbedsPersonaSlotsOnly ==
  [][ /\ numEvaluate' = numEvaluate + 1 =>
           /\ embedCalls' = embedCalls + Cardinality(PresentSlots(currentPrompt))
           /\ embedCalls' - embedCalls \in 1..3
      /\ numEvaluate' = numEvaluate /\ pc' # "failed" => embedCalls' = embedCalls
      /\ pc # "idle" => /\ evalLeads' = evalLeads
                        /\ embPresent' = embPresent ]_vars

\* the run evaluated the Target-only initial persona with one embedding call
\* and then the accepted three-section proposal with three
C25_Witness ==
  /\ numEvaluate = 2
  /\ embedCalls = 4
  /\ Cardinality(PresentSlots(currentPrompt)) = 3
  /\ evalLeads = EvalLeadsOf(NumLeads)
  /\ pc = "propose"

(***************************************************************************)
(* C26                                                                     *)
(***************************************************************************)
IsLeadToTextCall == call.fn = "leadToText"

PartsLabelled(label) == {j \in 1..Len(ret.parts) : ret.parts[j].label = label}

\* the parts of the text that show the value of entry e of the lead
PartsShowing(e) ==
  {j \in 1..Len(ret.parts) :
     TestIgnoreCase(ret.parts[j].value, call.lead[e].value)}

\* C26: leadToText returns a non-empty text, puts Role and then Company
\* before every other field, and shows the value of each lead field at most
\* once: a field shown in a canonical slot, under whatever key spelling the
\* alias lookup found it, is not repeated among the trailing other fields.
C26_LeadTextShowsEachFieldOnce ==
  IsLeadToTextCall =>
    /\ Len(ret.text) > 0
    /\ PartsLabelled(<<"R","o","l","e">>) \subseteq {1}
    /\ PartsLabelled(<<"C","o","m","p","a","n","y">>) \subseteq
         (IF PartsLabelled(<<"R","o","l","e">>) = {} THEN {1} ELSE {2})
    /\ \A e \in 1..Len(call.lead) :
         Len(Trim(call.lead[e].value)) > 0 => Cardinality(PartsShowing(e)) <= 1

(***************************************************************************)
(* C27                                                                     *)
(***************************************************************************)
\* C27: within one process the migration statement sequence is executed to
\* completion at most once, also when several requests call
\* ensureLeadsTable before the first call has finished, and a call made
\* once the migration has succeeded executes no statement: it returns at
\* once.
C27_MigrationRunsAtMostOnce ==
  [][ /\ migCompleted' <= 1
      /\ \A r \in Requests :
           (migPc[r] = "idle" /\ ensured /\ migPc'[r] # "idle")
             => migPc'[r] = "returned" ]_vars

(***************************************************************************)
(* C28                                                                     *)
(***************************************************************************)
\* C28: the produced rank array that evaluatePromptOnEvalSet returns has one
\* entry per evaluation lead and is a permutation of 1..N, also for an
\* evaluation set in which two leads share Full Name and Company.
C28_ProducedRanksArePermutation ==
  (call.fn = "evaluatePromptOnEvalSet" /\ ret.ok) =>
    /\ Len(ret.result.ourRanks) = Len(call.evalLeads)
    /\ \A v \in 1..Len(call.evalLeads) :
         Cardinality({i \in 1..Len(call.evalLeads) :
                        ret.result.ourRanks[i] = v}) = 1

(***************************************************************************)
(* C29                                                                     *)
(***************************************************************************)
\* C29: the iterations value that runOptimization returns equals the number
\* of evaluations performed, which is the length of the returned history,
\* for every maxIterations the request layer passes on (whole or not).
C29_IterationsCountsEvaluations ==
  (pc = "responded" /\ response.status = 200) =>
    /\ response.result.iterations2 = 2 * Len(response.result.history)
    /\ Len(response.result.history) = numEvaluate

(***************************************************************************)
(* C30                                                                     *)
(***************************************************************************)
\* w is the end of h: at most the 3 most recent entries, the last one
\* included
IsRecentWindowOf(w, h) ==
  /\ Len(w) = (IF Len(h) < 3 THEN Len(h) ELSE 3)
  /\ \A k \in 1..Len(w) : w[k] = h[Len(h) - Len(w) + k]

\* C30: in every run the external calls go Evaluate, then (unless it is the
\* last iteration) one or two Propose calls, then the next Evaluate.  A
\* Propose call is made only after an Evaluate of the current text in the
\* same iteration, at most twice, and is handed the score of that
\* evaluation, the feedback built from its rank arrays and the window of at
\* most the 3 most recent history entries ending with the entry just
\* appended; the Propose calls of an iteration are followed by the next
\* Evaluate, so that the run never ends on a Propose call that returned.
C30_EvaluateThenProposeThenEvaluate ==
  [][ /\ pc \in {"propose", "propose2"} =>
           /\ numEvaluate >= 1
           /\ proposeCalls' \in 1..2
           /\ history[Len(history)] =
                [prompt |-> currentPrompt, score |-> lastEval.score]
           /\ proposeArgs'.currentPrompt = currentPrompt
           /\ proposeArgs'.currentScore = lastEval.score
           /\ IsRecentWindowOf(proposeArgs'.history, history)
           /\ proposeArgs'.feedback =
                buildRankingFeedback(evalLeads, lastEval.ourRanks,
                                     lastEval.goldRanks)
      /\ pc = "loop" /\ pc' = "propose" => numEvaluate' = numEvaluate + 1
      /\ pc \in {"propose", "propose2"} /\ pc' = "loop" => LoopCondition' ]_vars

====
